---- MODULE Spec2Model ----
(***************************************************************************)
(* A model of the discord-ppa APT repository service: the per-source       *)
(* pollers (PPA.poll / PPA.processNewDeb), the regeneration of the signed  *)
(* repository metadata (PPA.regenerateRepoMetadata) and the admin delete   *)
(* command (PPA.DeleteSource, run by the "delete" subcommand in a process  *)
(* of its own), all acting on one object-store bucket.                     *)
(*                                                                         *)
(* Byte strings are sequences of tokens (TLA+ strings).  A token stands    *)
(* for one or more bytes; package names, versions and state strings are    *)
(* spelled one character per token.  A hash is a digest of the tokens in   *)
(* decimal digits, gzip wraps its input, and a signature carries the key   *)
(* and the digest of what was signed.                                      *)
(***************************************************************************)
EXTENDS Integers, Sequences, FiniteSets, TLC

\* ------------------------------------------------------------------ bounds
\* Poll cycles started over the whole run, all sources together.
MaxPolls == 2
\* DeleteSource calls made by the admin command over the whole run.
MaxDeletes == 1
\* Poll cycles and DeleteSource calls started over the whole run, together.
MaxOps == 2
\* Iteration orders of the uploads map a regeneration may take: the order of
\* the map literal, started at its entry 0 .. MaxStart and wrapping around.
MaxStart == 1
\* Release "Date:" values a regeneration may stamp (0 .. MaxDate).
MaxDate == 0
\* Store, signer, Check and Fetch calls that fail over the whole run.
MaxFaults == 1
\* Calls of poll a polling worker makes over the whole run.
MaxCycles == 2

\* ------------------------------------------------------- strings and bytes
HasPrefix(s, p) == Len(s) >= Len(p) /\ SubSeq(s, 1, Len(p)) = p

HasSuffix(s, p) == Len(s) >= Len(p) /\ SubSeq(s, Len(s) - Len(p) + 1, Len(s)) = p

TrimPrefix(s, p) == IF HasPrefix(s, p) THEN SubSeq(s, Len(p) + 1, Len(s)) ELSE s

\* strings.Join(parts, ""): the concatenation of a sequence of byte strings.
RECURSIVE Join(_)
Join(parts) == IF parts = <<>> THEN <<>> ELSE Head(parts) \o Join(Tail(parts))

\* strings.Split(s, sep) for a one-token separator: the pieces between the
\* separators, the last one being what follows the last separator.
RECURSIVE Split(_, _)
Split(s, sep) ==
    IF \A i \in 1..Len(s) : s[i] # sep THEN <<s>>
    ELSE LET i == CHOOSE j \in 1..Len(s) : s[j] = sep /\ \A k \in 1..(j - 1) : s[k] # sep
         IN <<SubSeq(s, 1, i - 1)>> \o Split(SubSeq(s, i + 1, Len(s)), sep)

\* The tokens of the model in ascending byte order of their text.
Alphabet ==
    << "\n", " ", "(", ")", "+", "-", ".", "/", "0", "1", "2", "3", "4", "5",
       "6", "7", "8", "9", ": ", "Filename", "MD5sum", "Package", "SHA1",
       "SHA256", "Size", "Version", "Z", "c", "d", "md5", "pool/", "sha1", "sha256",
       "x", "y", "z", "~" >>

Tokens == { Alphabet[i] : i \in 1..Len(Alphabet) }

\* The rank of each token of the alphabet in byte order.
Rank == [t \in Tokens |-> CHOOSE i \in 1..Len(Alphabet) : Alphabet[i] = t]

TokOrd(t) == IF t \in Tokens THEN Rank[t] ELSE Len(Alphabet) + 1

\* Go's string comparison a < b: lexicographic, a proper prefix is smaller.
RECURSIVE Less(_, _)
Less(a, b) ==
    IF b = <<>> THEN FALSE
    ELSE IF a = <<>> THEN TRUE
    ELSE IF Head(a) = Head(b) THEN Less(Tail(a), Tail(b))
    ELSE TokOrd(Head(a)) < TokOrd(Head(b))

\* sort.Strings: ascending; equal strings are kept, all of them.
RECURSIVE Insert(_, _)
Insert(x, sorted) ==
    IF sorted = <<>> THEN <<x>>
    ELSE IF Less(Head(sorted), x) THEN <<Head(sorted)>> \o Insert(x, Tail(sorted))
    ELSE <<x>> \o sorted

\* A faulty sort.Strings: the entries stay in the order they came.
KeepOrder(xs) == xs

RECURSIVE SortStrings(_)
SortStrings(xs) == IF xs = <<>> THEN <<>> ELSE Insert(Head(xs), SortStrings(Tail(xs)))

Digits == << "0", "1", "2", "3", "4", "5", "6", "7", "8", "9" >>

\* fmt's %d of a non-negative integer.
RECURSIVE Itoa(_)
Itoa(n) == IF n < 10 THEN <<Digits[n + 1]>> ELSE Append(Itoa(n \div 10), Digits[(n % 10) + 1])

\* A token that stands for 512 MiB of payload; every other token is one byte.
BigTok == "<512MiB>"

maxDebSize == 512 * 1024 * 1024

TokLen(t) == IF t = BigTok THEN maxDebSize ELSE 1

\* A token that stands for the part of a 512 MiB token that a read cut at
\* 512 MiB still holds: what ends in it is 512 MiB long.
CutTok == "<cut>"

\* len(data)
ByteLen(data) ==
    IF data # <<>> /\ data[Len(data)] = CutTok THEN maxDebSize
    ELSE Len(data) + (TokLen(BigTok) - 1) * Cardinality({ i \in 1..Len(data) : data[i] = BigTok })

\* io.ReadAll(io.LimitReader(resp.Body, 512*1024*1024)) of the adapters: a
\* body of more than 512 MiB is cut at 512 MiB, without an error.
LimitRead(body) ==
    IF ByteLen(body) <= maxDebSize THEN body
    ELSE LET big == { i \in 1..Len(body) : body[i] = BigTok }
             first == CHOOSE i \in big : \A j \in big : i <= j
         IN SubSeq(body, 1, first - 1) \o <<CutTok>>

\* A digest of the tokens data[lo..hi]: a hash tree over the token ranks.
RECURSIVE DigestOf(_, _, _)
DigestOf(data, lo, hi) ==
    IF lo > hi THEN 7
    ELSE IF lo = hi THEN TokOrd(data[lo]) + 1
    ELSE (DigestOf(data, lo, (lo + hi) \div 2) * 131
            + DigestOf(data, (lo + hi) \div 2 + 1, hi) * 31 + 17) % 1000003

\* fmt.Sprintf("%x", md5.Sum(data)) and its sha1, sha256 siblings: a digest
\* per algorithm, in digits.
Hash(alg, data) ==
    Itoa((DigestOf(data, 1, Len(data))
            + (IF alg = "md5" THEN 1 ELSE IF alg = "sha1" THEN 2 ELSE 3)) % 1000003)

\* ------------------------------------------------------------- .deb codec
arGlobalHeader == "!<arch>\n"

\* What next returns in place of a header when it fails.
NoHeader == [Name |-> <<>>, ModTime |-> 0, Size |-> 0, Mode |-> 0]

\* Entry names an ar header of a .deb may carry, and the members of a
\* control tar.  In a token string a member is its name followed by its body.
ArNames ==
    { "debian-binary", "control.tar.gz", "control.tar", "control.tar.xz",
      "control.tar.zst", "data.tar.gz" }

TarNames == { "./control", "control", "./md5sums" }

\* The members of an archive body: <<name, body>> pairs, in archive order.
RECURSIVE MembersAt(_, _, _)
MembersAt(s, names, acc) ==
    IF s = <<>> THEN acc
    ELSE IF Head(s) \in names THEN MembersAt(Tail(s), names, Append(acc, <<Head(s), <<>>>>))
    ELSE IF acc = <<>> THEN MembersAt(Tail(s), names, acc)
    ELSE MembersAt(Tail(s), names,
                   [acc EXCEPT ![Len(acc)] = <<acc[Len(acc)][1], Append(acc[Len(acc)][2], Head(s))>>])

Members(s, names) == MembersAt(s, names, <<>>)

Whitespace == { " ", "\t", "\n" }

RECURSIVE TrimLeft(_)
TrimLeft(s) == IF s # <<>> /\ Head(s) \in Whitespace THEN TrimLeft(Tail(s)) ELSE s

RECURSIVE TrimRight(_)
TrimRight(s) ==
    IF s # <<>> /\ s[Len(s)] \in Whitespace THEN TrimRight(SubSeq(s, 1, Len(s) - 1)) ELSE s

TrimSpace(s) == TrimLeft(TrimRight(s))

\* The colon of a "Key: Value" line: alone, or with the space that follows it.
Colons == { ":", ": " }

HasColon(line) == \E i \in 1..Len(line) : line[i] \in Colons

FirstColon(line) == CHOOSE i \in 1..Len(line) :
    line[i] \in Colons /\ \A j \in 1..(i - 1) : line[j] \notin Colons

\* flush() of parseControlFile: the pending field joins the list.
Flush(curKey, curVal, fields) ==
    IF curKey = <<>> THEN fields ELSE Append(fields, <<curKey, TrimSpace(curVal)>>)

\* The scanner loop of parseControlFile over the lines that are left.
RECURSIVE ScanControl(_, _, _, _)
ScanControl(lines, curKey, curVal, fields) ==
    IF lines = <<>> \/ Head(lines) = <<>> THEN Flush(curKey, curVal, fields)
    ELSE LET line == Head(lines) IN
         IF Head(line) \in { " ", "\t" }
         THEN ScanControl(Tail(lines), curKey, curVal \o <<"\n">> \o line, fields)
         ELSE IF ~HasColon(line)
         THEN ScanControl(Tail(lines), curKey, curVal, Flush(curKey, curVal, fields))
         ELSE ScanControl(Tail(lines),
                          TrimSpace(SubSeq(line, 1, FirstColon(line) - 1)),
                          TrimSpace(SubSeq(line, FirstColon(line) + 1, Len(line))),
                          Flush(curKey, curVal, fields))

\* The value the switch in flush() leaves in a convenience field: that of the
\* last field with the key, "" when there is none.
RECURSIVE FieldValue(_, _)
FieldValue(fields, key) ==
    IF fields = <<>> THEN <<>>
    ELSE IF fields[Len(fields)][1] = key THEN fields[Len(fields)][2]
    ELSE FieldValue(SubSeq(fields, 1, Len(fields) - 1), key)

ParseError == [err |-> TRUE, Package |-> <<>>, Version |-> <<>>, Fields |-> <<>>]

\* compress/gzip: the writer wraps its input, the reader unwraps it and
\* fails on bytes that are no gzip stream.
Gzip(data) == <<"gzip(">> \o data \o <<")">>

IsGzip(body) == Len(body) >= 2 /\ Head(body) = "gzip(" /\ body[Len(body)] = ")"

Gunzip(body) == SubSeq(body, 2, Len(body) - 1)

\* A faulty parseControlFile: a block without a Package is returned too.
parseControlFileLenient(text) ==
    LET fields == ScanControl(Split(text, "\n"), <<>>, <<>>, <<>>) IN
    [err |-> FALSE, Package |-> FieldValue(fields, <<"Package">>),
     Version |-> FieldValue(fields, <<"Version">>), Fields |-> fields]

parseControlFile(text) ==
    LET fields == ScanControl(Split(text, "\n"), <<>>, <<>>, <<>>) IN
    IF FieldValue(fields, <<"Package">>) = <<>> THEN ParseError
    ELSE [err |-> FALSE, Package |-> FieldValue(fields, <<"Package">>),
          Version |-> FieldValue(fields, <<"Version">>), Fields |-> fields]

parseControlTar(body, name) ==
    IF name \in { "control.tar.xz", "control.tar.zst" } THEN ParseError
    ELSE IF name = "control.tar.gz" /\ ~IsGzip(body) THEN ParseError
    ELSE LET ms == Members(IF name = "control.tar.gz" THEN Gunzip(body) ELSE body, TarNames)
             hit == { i \in 1..Len(ms) : ms[i][1] \in { "./control", "control" } }
         IN IF hit = {} THEN ParseError
            ELSE parseControlFile(ms[CHOOSE i \in hit : \A j \in hit : i <= j][2])

ControlTarNames == { "control.tar.gz", "control.tar", "control.tar.xz", "control.tar.zst" }

ParseDebControl(data) ==
    IF data = <<>> \/ Head(data) # arGlobalHeader THEN ParseError
    ELSE LET ms == Members(Tail(data), ArNames)
             hit == { i \in 1..Len(ms) : ms[i][1] \in ControlTarNames }
         IN IF hit = {} THEN ParseError
            ELSE LET i == CHOOSE i \in hit : \A j \in hit : i <= j
                 IN parseControlTar(ms[i][2], ms[i][1])

\* safeDebField: ^[a-zA-Z0-9][a-zA-Z0-9.+~:\-]*$, one character per token.
AlNum ==
    { "a", "b", "c", "d", "e", "f", "g", "h", "i", "j", "k", "l", "m", "n", "o",
      "p", "q", "r", "s", "t", "u", "v", "w", "x", "y", "z",
      "A", "B", "C", "D", "E", "F", "G", "H", "I", "J", "K", "L", "M", "N", "O",
      "P", "Q", "R", "S", "T", "U", "V", "W", "X", "Y", "Z",
      "0", "1", "2", "3", "4", "5", "6", "7", "8", "9" }

safeDebField(s) ==
    /\ s # <<>>
    /\ Head(s) \in AlNum
    /\ \A i \in 2..Len(s) : s[i] \in AlNum \cup { ".", "+", "~", ":", "-" }

\* ----------------------------------------------------- metadata formatter
\* One "Key: Value\n" line.
Line(key, value) == key \o <<": ">> \o value \o <<"\n">>

RECURSIVE FieldLines(_)
FieldLines(fields) ==
    IF fields = <<>> THEN <<>>
    ELSE Line(Head(fields)[1], Head(fields)[2]) \o FieldLines(Tail(fields))

\* One stanza of GeneratePackagesFile.
Stanza(pkg) ==
    FieldLines(pkg.Control.Fields)
        \o Line(<<"Filename">>, pkg.Filename)
        \o Line(<<"Size">>, Itoa(pkg.Size))
        \o Line(<<"MD5sum">>, pkg.MD5)
        \o Line(<<"SHA1">>, pkg.SHA1)
        \o Line(<<"SHA256">>, pkg.SHA256)
        \o <<"\n">>

RECURSIVE GeneratePackagesFile(_)
GeneratePackagesFile(packages) ==
    IF packages = <<>> THEN <<>>
    ELSE IF Len(packages) = 1 THEN Stanza(packages[1])
    ELSE GeneratePackagesFile(SubSeq(packages, 1, Len(packages) - 1))
             \o <<"\n">> \o Stanza(packages[Len(packages)])

GeneratePackagesGz(packagesData) == <<"gzip(">> \o packagesData \o <<")">>

ComputeFileHash(data, path) ==
    [Path |-> path, Size |-> ByteLen(data), MD5 |-> Hash("md5", data),
     SHA1 |-> Hash("sha1", data), SHA256 |-> Hash("sha256", data)]

RECURSIVE HashLines(_, _)
HashLines(files, alg) ==
    IF files = <<>> THEN <<>>
    ELSE <<" ">> \o Head(files)[alg] \o <<" ">> \o Itoa(Head(files).Size)
             \o <<" ", Head(files).Path, "\n">> \o HashLines(Tail(files), alg)

\* GenerateReleaseFile, with the clock reading it stamps as "Date:"; Origin
\* and Label are the defaults of the configuration (ORIGIN, LABEL).
GenerateReleaseFile(files, now) ==
    <<"Origin: ppa.matejpavlicek.cz\nLabel: PPA\nSuite: stable\nCodename: stable\nArchitectures: amd64\nComponents: main\n",
      "Date: ">> \o Itoa(now) \o <<"\n">>
        \o <<"MD5Sum:\n">> \o HashLines(files, "MD5")
        \o <<"SHA1:\n">> \o HashLines(files, "SHA1")
        \o <<"SHA256:\n">> \o HashLines(files, "SHA256")

\* ------------------------------------------------------------------ signer
\* The key pair every process loads from GPG_PRIVATE_KEY.
SignerKey == "key-1"

PublicKey == <<"-----BEGIN PGP PUBLIC KEY BLOCK-----", SignerKey>>

\* A signature by `key` over `content`: made over the digest of the content.
Signature(key, content) ==
    <<"-----BEGIN PGP SIGNATURE-----", key>> \o Hash("sha256", content)

ClearSign(content) ==
    <<"-----BEGIN PGP SIGNED MESSAGE-----">> \o content \o Signature(SignerKey, content)

DetachedSign(content) == Signature(SignerKey, content)

\* What gpg --verify accepts: the clearsigned text, and the key that signed it.
ClearSignedText(msg) ==
    LET i == CHOOSE i \in 1..Len(msg) : msg[i] = "-----BEGIN PGP SIGNATURE-----"
    IN SubSeq(msg, 2, i - 1)

\* ------------------------------------------------------------ object store
\* S3 PutObject / DeleteObject on the bucket: last writer wins, per key.
Put(st, key, data) == [k \in DOMAIN st \cup {key} |-> IF k = key THEN data ELSE st[k]]

Delete(st, key) == [k \in DOMAIN st \ {key} |-> st[k]]

\* ListPrefix: the keys that start with the prefix.
ListPrefix(st, prefix) == { k \in DOMAIN st : HasPrefix(k, prefix) }

StateKey(name) == <<"meta/", name, "/state">>

EntryKey(name) == <<"meta/", name, "/packages-entry">>

\* A faulty pool key: the directory is named after the whole package, not
\* after its first character.
PoolKeyFlat(ctrl) ==
    <<"pool/">> \o ctrl.Package \o <<"/">> \o ctrl.Package \o <<"/">>
        \o ctrl.Package \o <<"-">> \o ctrl.Version \o <<".deb">>

\* filename of processNewDeb: pool/<first byte of Package>/<Package>/<Package>-<Version>.deb
PoolKey(ctrl) ==
    <<"pool/", Head(ctrl.Package), "/">> \o ctrl.Package \o <<"/">>
        \o ctrl.Package \o <<"-">> \o ctrl.Version \o <<".deb">>

PackagesKey == <<"dists/stable/main/binary-amd64/Packages">>

PackagesGzKey == <<"dists/stable/main/binary-amd64/Packages.gz">>

ReleaseKey == <<"dists/stable/Release">>

InReleaseKey == <<"dists/stable/InRelease">>

ReleaseGpgKey == <<"dists/stable/Release.gpg">>

KeyGpgKey == <<"key.gpg">>

\* The keys of the uploads map of regenerateRepoMetadata, as its literal
\* lists them.
UploadOrder ==
    << PackagesKey, PackagesGzKey, ReleaseKey, InReleaseKey, ReleaseGpgKey, KeyGpgKey >>

MetadataKeys == { UploadOrder[i] : i \in 1..Len(UploadOrder) }

\* The key before `key` in the iteration of the map, which wraps around.
Before(key) ==
    LET i == CHOOSE j \in 1..Len(UploadOrder) : UploadOrder[j] = key
    IN UploadOrder[IF i = 1 THEN Len(UploadOrder) ELSE i - 1]

\* The keys `range uploads` may yield next when `pending` are left.
NextKeys(pending) ==
    IF pending = MetadataKeys
    THEN { UploadOrder[(i % Len(UploadOrder)) + 1] : i \in 0..MaxStart }
    ELSE { key \in pending : Before(key) \notin pending }

\* --------------------------------------------------------------- processes
\* The sources registered with the service; each has a poller goroutine.
Sources == { "discord", "zcli" }

\* The process of the "delete" subcommand.
Cli == "cli"

Procs == Sources \cup {Cli}

\* The PPA instance a process runs in: ppa.New gives each OS process its own,
\* with its own mutex.
Inst(p) == IF p = Cli THEN "cli" ELSE "svc"

Instances == { Inst(p) : p \in Procs }

\* ---------------------------------------------------------------- BuildDeb
\* sort.Slice(entries, Path ascending)
RECURSIVE InsertEntry(_, _)
InsertEntry(e, sorted) ==
    IF sorted = <<>> THEN <<e>>
    ELSE IF Less(Head(sorted).Path, e.Path) THEN <<Head(sorted)>> \o InsertEntry(e, Tail(sorted))
    ELSE <<e>> \o sorted

RECURSIVE SortEntries(_)
SortEntries(entries) ==
    IF entries = <<>> THEN <<>> ELSE InsertEntry(Head(entries), SortEntries(Tail(entries)))

\* The members of the data tar: "./" and the path, or "." and a path that
\* starts with "/", and the body.
RECURSIVE DataMembers(_)
DataMembers(entries) ==
    IF entries = <<>> THEN <<>>
    ELSE LET e == Head(entries)
         IN (IF Head(e.Path) = "/" THEN <<".">> ELSE <<".", "/">>) \o e.Path \o e.Body
                \o DataMembers(Tail(entries))

\* buildDataTar indexes e.Path[0]: an entry with an empty path panics.
DataTarPanics(entries) == \E i \in 1..Len(entries) : entries[i].Path = <<>>

buildDataTar(entries) == Gzip(DataMembers(SortEntries(entries)))

\* A faulty buildControlTar: the fields are written last one first.
RECURSIVE FieldLinesReversed(_)
FieldLinesReversed(fields) ==
    IF fields = <<>> THEN <<>>
    ELSE FieldLinesReversed(Tail(fields)) \o Line(Head(fields)[1], Head(fields)[2])

buildControlTarReversed(ctrl) == Gzip(<<"./control">> \o FieldLinesReversed(ctrl.Fields))

\* buildControlTar: one member ./control, a "Key: Value\n" line per field.
buildControlTar(ctrl) == Gzip(<<"./control">> \o FieldLines(ctrl.Fields))

\* BuildDeb: the three members, in this order.
BuildDeb(ctrl, entries) ==
    <<arGlobalHeader, "debian-binary", "2.0\n", "control.tar.gz">> \o buildControlTar(ctrl)
        \o <<"data.tar.gz">> \o buildDataTar(entries)

\* ------------------------------------------------------------ the upstream
\* A .deb as an upstream serves it: the ar members, the control file in the
\* control tar, the payload.
MkDeb(pkg, ver, payload) ==
    <<arGlobalHeader, "debian-binary", "2.0\n", "control.tar.gz">>
        \o Gzip(<<"./control">> \o Line(<<"Package">>, pkg) \o Line(<<"Version">>, ver))
        \o <<"data.tar.gz">> \o payload

\* What Fetch of a source may return: releases of its package with different
\* versions and payloads, a package another source also publishes, a package
\* with a name of two characters, bytes that are no .deb, a version that is
\* no safe field, and a .deb of more than 512 MiB.
Upstream(name) ==
    IF name = "discord"
    THEN { MkDeb(<<"d">>, <<"1">>, <<"x">>), MkDeb(<<"d">>, <<"2">>, <<"x">>),
           <<"<html>">>, MkDeb(<<"d">>, <<"3">>, <<BigTok, "x">>) }
    ELSE { MkDeb(<<"d">>, <<"1">>, <<"y">>), MkDeb(<<"z">>, <<".", ".">>, <<"x">>),
           MkDeb(<<"Z", "c">>, <<"1">>, <<"x">>) }

\* What Check of a source may return: an ETag or a tag name, possibly empty.
UpstreamStates == { <<>>, <<"e1">>, <<"e2">> }

Dates == 0..MaxDate

\* What Fetch returns when it fails.
FetchError == <<"<fetch error>">>

VARIABLES
    store,      \* the bucket: a function from the keys present to their bytes
    mu,         \* PPA.mu of each instance: "free" or the process holding it
    pc,         \* where each process is
    chk,        \* poll: the state Check returned
    deb,        \* poll: the bytes Fetch returned (kept after a successful cycle)
    keys,       \* regenerate: the listed fragment keys not yet downloaded
    entries,    \* regenerate: allEntries, in download order
    pkgs,       \* regenerate: packagesData
    up,         \* regenerate: the entries of uploads not yet uploaded
    rm,         \* DeleteSource: the Filename values not yet deleted
    tgt,        \* DeleteSource: sourceName
    last,       \* how each process's last cycle or command ended
    lastRegen,  \* how the regeneration that returned last ended
    skipped,    \* regenerate: whether a fragment download failed in this run
    snap,       \* regenerate: the listed fragments as they were at the listing
    fresh,      \* regenerate: every download so far returned what snap holds
    wroteState, \* poll: whether this cycle has uploaded meta/<name>/state
    same,       \* poll: Check returned what meta/<name>/state held
    got,        \* poll: the download of meta/<name>/state returned no error
    fetched,    \* poll: whether this cycle called Fetch
    verdict,    \* poll: how the cycle went on what Check and Fetch returned
    named,      \* DeleteSource: the pool files the fragment named when it began
    intact,     \* DeleteSource: no store call of it has failed
    alone,      \* DeleteSource: no poller has taken a step since it began
    prev,       \* poll: what the cycle before this one ingested, when it succeeded
    polls,      \* poll cycles started
    dels,       \* DeleteSource calls started
    faults,     \* store and signer calls that have failed
    ctxDone,    \* Run: the root context is cancelled
    wk,         \* Run: where the polling worker of each source is
    ticker,     \* runPoller: "none", "running" or "stopped"
    tickC,      \* runPoller: the ticks waiting in ticker.C (it buffers one)
    rmu,        \* Run: PPA.mu, "free" or the worker holding it
    http,       \* Run: the HTTP server, "listening", "closed" or "failed"
    run,        \* Run: where Run itself is
    observer,   \* Run: where the goroutine that waits for ctx.Done() is
    cycles,     \* runPoller: the calls of poll made for each source
    inflight,   \* runPoller: the calls of poll that have not returned
    taken,      \* runPoller: the ticks received from ticker.C
    ended,      \* runPoller: how the last call of poll ended
    hpc,        \* HTTPWithRetry: where the call is
    attempt,    \* HTTPWithRetry: the loop variable
    requests,   \* HTTPWithRetry: the requests HTTPClient.Do has issued
    resps,      \* HTTPWithRetry: the status of every response received
    heads,      \* HTTPWithRetry: the Retry-After of every 429 received
    waits,      \* HTTPWithRetry: the backoff computed after every 429, in seconds
    result,     \* HTTPWithRetry: what the call returned
    hctx,       \* HTTPWithRetry: its context is cancelled
    pcAtCancel, \* HTTPWithRetry: where the call was when the context was cancelled
    reqAtCancel, \* HTTPWithRetry: the requests issued before the cancellation
    spc,        \* server: where the request being served is
    sreq,       \* server: the request, its method and the path of its URL as sent
    sstatus,    \* server: the status of the response, 0 before there is one
    sget,       \* server: the keys GetObject was called with for the request
    served,     \* server: the requests that have arrived
    cpc,        \* deb codec: "idle", "built", "parsed", "processed", "deleted" or "panicked"
    cctrl,      \* deb codec: the control record given to BuildDeb
    centries,   \* deb codec: the entries given to BuildDeb
    cdeb,       \* deb codec: the archive BuildDeb returned
    cparsed,    \* deb codec: what ParseDebControl returned for it
    ckey,       \* deb codec: the pool key processNewDeb built for it, if any
    cfrag,      \* deb codec: the fragment processNewDeb built for it, if any
    cdel,       \* deb codec: the pool files DeleteSource deletes for that fragment
    cfetched,   \* deb codec: the bytes Fetch read of the archive
    wpc,        \* arWriter: "none" before newArWriter, then "open"
    wout,       \* arWriter: the bytes written to its io.Writer
    wlog,       \* arWriter: the offset and the size of every entry written
    rpc,        \* arReader: "none", "open", "ended" (an error was returned) or "panicked"
    rin,        \* arReader: the bytes of its io.Reader
    rpos,       \* arReader: the bytes consumed from its io.Reader
    remaining,  \* arReader.remaining
    pad,        \* arReader.pad
    rok,        \* arReader: the last call of next returned a header
    rhdr,       \* arReader: the header the last call of next returned
    rerr,       \* arReader: the error the last call returned, "none" without one
    rat,        \* arReader: the offset the last header was read from
    rbuf,       \* arReader: the 60 bytes the last call of next read as a header
    rgot,       \* arReader: the bytes Read has returned since the last next
    rplain,     \* arReader: its bytes are what the writer wrote, undamaged
    skip,       \* arReader.next: the bytes the last call had to skip
    whenDone    \* Run: what the workers did when the context was cancelled: one
                \* waited for the mutex ("blocked"), one was inside poll ("busy")

regenVars == << keys, entries, pkgs, up, skipped, snap, fresh >>

pollVars == << chk, wroteState, same, got, fetched, verdict >>

delVars == << tgt, named, intact >>

\* The variables of the ingest, regeneration and delete paths.
ppaVars ==
    << store, mu, pc, deb, rm, last, lastRegen, alone, prev, polls, dels, faults,
       regenVars, pollVars, delVars >>

\* The variables of Run and its workers.
runVars ==
    << ctxDone, wk, ticker, tickC, rmu, http, run, observer, cycles, inflight, taken,
       ended, whenDone >>

\* The variables of a call of HTTPWithRetry.
retryVars ==
    << hpc, attempt, requests, resps, heads, waits, result, hctx, pcAtCancel, reqAtCancel >>

\* The variables of the HTTP server.
serveVars == << spc, sreq, sstatus, sget, served >>

\* The variables of a BuildDeb call and of the ParseDebControl call on its
\* output.
debVars == << cpc, cctrl, centries, cdeb, cparsed, ckey, cfrag, cdel, cfetched >>

\* The variables of the ar writer and of the ar reader.
arVars ==
    << wpc, wout, wlog, rpc, rin, rpos, remaining, pad, rok, rhdr, rerr, rat, rbuf, rgot,
       rplain, skip >>

vars == << ppaVars, runVars, retryVars, serveVars, debVars, arVars >>

\* What a step of the ingest, regeneration and delete paths leaves alone.
notPpa == << runVars, retryVars, serveVars, debVars, arVars >>

\* What a step of Run or of a worker leaves alone.
notRun == << ppaVars, retryVars, serveVars, debVars, arVars >>

\* What a step of HTTPWithRetry leaves alone.
notRetry == << ppaVars, runVars, serveVars, debVars, arVars >>

\* What a step of the HTTP server leaves alone.
notServe == << ppaVars, runVars, retryVars, debVars, arVars >>

\* What a step of the deb codec leaves alone.
notDeb == << ppaVars, runVars, retryVars, serveVars, arVars >>

\* What a step of the ar writer or reader leaves alone.
notAr == << ppaVars, runVars, retryVars, serveVars, debVars >>

Has(key) == key \in DOMAIN store

NoObjects == [k \in {} |-> <<>>]

Init ==
    /\ store = NoObjects
    /\ mu = [i \in Instances |-> "free"]
    /\ pc = [p \in Procs |-> "idle"]
    /\ chk = [s \in Sources |-> <<>>]
    /\ deb = [s \in Sources |-> <<>>]
    /\ keys = [p \in Procs |-> {}]
    /\ entries = [p \in Procs |-> <<>>]
    /\ pkgs = [p \in Procs |-> <<>>]
    /\ up = [p \in Procs |-> NoObjects]
    /\ rm = <<>>
    /\ tgt = "none"
    /\ last = [p \in Procs |-> "none"]
    /\ lastRegen = "none"
    /\ skipped = [p \in Procs |-> FALSE]
    /\ snap = [p \in Procs |-> NoObjects]
    /\ fresh = [p \in Procs |-> TRUE]
    /\ wroteState = [s \in Sources |-> FALSE]
    /\ same = [s \in Sources |-> FALSE]
    /\ got = [s \in Sources |-> FALSE]
    /\ fetched = [s \in Sources |-> FALSE]
    /\ verdict = [s \in Sources |-> "none"]
    /\ named = <<>>
    /\ intact = TRUE
    /\ alone = FALSE
    /\ prev = [s \in Sources |-> <<>>]
    /\ polls = 0
    /\ dels = 0
    /\ faults = 0
    /\ ctxDone = FALSE
    /\ wk = [s \in Sources |-> "start"]
    /\ ticker = [s \in Sources |-> "none"]
    /\ tickC = [s \in Sources |-> 0]
    /\ rmu = "free"
    /\ http = "listening"
    /\ run = "serving"
    /\ observer = "waiting"
    /\ cycles = [s \in Sources |-> 0]
    /\ inflight = [s \in Sources |-> 0]
    /\ taken = [s \in Sources |-> 0]
    /\ ended = [s \in Sources |-> "none"]
    /\ whenDone = "none"
    /\ hpc = "idle"
    /\ attempt = 0
    /\ requests = 0
    /\ resps = <<>>
    /\ heads = <<>>
    /\ waits = <<>>
    /\ result = "none"
    /\ hctx = FALSE
    /\ pcAtCancel = "none"
    /\ reqAtCancel = 0
    /\ spc = "idle"
    /\ sreq = [method |-> "GET", path |-> <<"/">>]
    /\ sstatus = 0
    /\ sget = <<>>
    /\ served = 0
    /\ cpc = "idle"
    /\ cctrl = [Fields |-> <<>>]
    /\ centries = <<>>
    /\ cdeb = <<>>
    /\ cparsed = ParseError
    /\ ckey = <<>>
    /\ cfrag = <<>>
    /\ cdel = <<>>
    /\ cfetched = <<>>
    /\ wpc = "none"
    /\ wout = <<>>
    /\ wlog = <<>>
    /\ rpc = "none"
    /\ rin = <<>>
    /\ rpos = 0
    /\ remaining = 0
    /\ pad = 0
    /\ rok = FALSE
    /\ rhdr = NoHeader
    /\ rerr = "none"
    /\ rat = 0
    /\ rbuf = <<>>
    /\ rgot = <<>>
    /\ rplain = TRUE
    /\ skip = 0

\* ------------------------------------------------------------------ faults
\* The results a store or signer call may have once f calls have failed:
\* success, and failure while the budget lasts.
OutcomesAt(f) == IF f < MaxFaults THEN BOOLEAN ELSE {TRUE}

Outcomes == OutcomesAt(faults)

\* The results of a Download: of an absent key it fails (NoSuchKey).
Tries(key) == IF Has(key) THEN Outcomes ELSE {FALSE}

\* The count of failed calls after a call on `key` that returned ok.
Charged(key, ok) == IF ~ok /\ Has(key) THEN faults + 1 ELSE faults

\* ------------------------------------------------------------- return paths
\* A step of process p: one of a poller ends what `alone` records.
Moved(p) == alone' = (alone /\ p = Cli)

\* The locals of regenerateRepoMetadata are gone.
ResetRegen(p) ==
    /\ keys' = [keys EXCEPT ![p] = {}]
    /\ entries' = [entries EXCEPT ![p] = <<>>]
    /\ pkgs' = [pkgs EXCEPT ![p] = <<>>]
    /\ up' = [up EXCEPT ![p] = NoObjects]
    /\ skipped' = [skipped EXCEPT ![p] = FALSE]
    /\ snap' = [snap EXCEPT ![p] = NoObjects]
    /\ fresh' = [fresh EXCEPT ![p] = TRUE]

\* A faulty return: no deferred Unlock, the mutex stays with the process.
ReturnKeepsLock(p, outcome) ==
    /\ pc' = [pc EXCEPT ![p] = "idle"]
    /\ UNCHANGED mu
    /\ last' = [last EXCEPT ![p] = outcome]
    /\ ResetRegen(p)
    /\ rm' = IF p = Cli THEN <<>> ELSE rm
    /\ deb' = IF p \in Sources /\ outcome # "ok" THEN [deb EXCEPT ![p] = <<>>] ELSE deb

\* A poll cycle or a DeleteSource call returns: the deferred Unlock runs when
\* the mutex was taken, and the locals are gone.
Return(p, outcome) ==
    /\ pc' = [pc EXCEPT ![p] = "idle"]
    /\ mu' = [mu EXCEPT ![Inst(p)] = IF @ = p THEN "free" ELSE @]
    /\ last' = [last EXCEPT ![p] = outcome]
    /\ ResetRegen(p)
    /\ rm' = IF p = Cli THEN <<>> ELSE rm
    /\ deb' = IF p \in Sources /\ outcome # "ok" THEN [deb EXCEPT ![p] = <<>>] ELSE deb

\* ------------------------------------------------------------------ poller
\* The comparison of poll with the persisted state: skip the cycle.
NoNewVersion(downloaded, lastState, state) ==
    downloaded /\ lastState = state /\ state # <<>>

\* poll: Check fails and the cycle ends.
CheckFails(s) ==
    /\ Moved(s)
    /\ pc[s] = "idle"
    /\ polls < MaxPolls
    /\ polls + dels < MaxOps
    /\ polls' = polls + 1
    /\ chk' = [chk EXCEPT ![s] = <<>>]
    /\ wroteState' = [wroteState EXCEPT ![s] = FALSE]
    /\ same' = [same EXCEPT ![s] = FALSE]
    /\ got' = [got EXCEPT ![s] = FALSE]
    /\ fetched' = [fetched EXCEPT ![s] = FALSE]
    /\ verdict' = [verdict EXCEPT ![s] = "check-error"]
    /\ Return(s, "err")
    /\ UNCHANGED << store, delVars, lastRegen, dels, prev, faults >>
    /\ UNCHANGED notPpa

\* A faulty processNewDeb: only the parse is checked, not the size nor the
\* Package and Version fields.
ParsesOnly(debData) == ~ParseDebControl(debData).err

\* The checks of processNewDeb before its first upload.
Accepts(debData) ==
    /\ ByteLen(debData) <= maxDebSize
    /\ ~ParseDebControl(debData).err
    /\ safeDebField(ParseDebControl(debData).Package)
    /\ safeDebField(ParseDebControl(debData).Version)

\* What became of the bytes Fetch returned: the error of Fetch, the check of
\* processNewDeb that rejected them, or their acceptance.
Verdict(debData) ==
    IF debData = FetchError THEN "fetch-error"
    ELSE IF ByteLen(debData) > maxDebSize THEN "oversize"
    ELSE IF ParseDebControl(debData).err THEN "unparsable"
    ELSE IF ~safeDebField(ParseDebControl(debData).Package)
              \/ ~safeDebField(ParseDebControl(debData).Version) THEN "unsafe"
    ELSE "accepted"

\* poll: Check returns a state, the persisted state is downloaded (the
\* download may fail) and compared; when the cycle is not skipped Fetch is
\* called and processNewDeb validates what it returned.
Poll(s) ==
    /\ Moved(s)
    /\ pc[s] = "idle"
    /\ polls < MaxPolls
    /\ polls + dels < MaxOps
    /\ polls' = polls + 1
    /\ wroteState' = [wroteState EXCEPT ![s] = FALSE]
    /\ \E state \in UpstreamStates, ok \in Tries(StateKey(s)) :
        LET lastState == IF ok THEN store[StateKey(s)] ELSE <<>> IN
        /\ chk' = [chk EXCEPT ![s] = state]
        /\ same' = [same EXCEPT ![s] = Has(StateKey(s)) /\ store[StateKey(s)] = state]
        /\ got' = [got EXCEPT ![s] = ok]
        /\ faults' = Charged(StateKey(s), ok)
        /\ IF NoNewVersion(ok, lastState, state)
           THEN /\ fetched' = [fetched EXCEPT ![s] = FALSE]
                /\ verdict' = [verdict EXCEPT ![s] = "skip"]
                /\ Return(s, "skip")
                /\ UNCHANGED prev
           ELSE /\ fetched' = [fetched EXCEPT ![s] = TRUE]
                /\ prev' = [prev EXCEPT ![s] = IF last[s] = "ok" THEN deb[s] ELSE @]
                /\ \E debData \in Upstream(s) \cup {FetchError} :
                    /\ verdict' = [verdict EXCEPT ![s] = Verdict(debData)]
                    /\ IF debData # FetchError /\ Accepts(debData)
                       THEN /\ deb' = [deb EXCEPT ![s] = debData]
                            /\ pc' = [pc EXCEPT ![s] = "pool"]
                            /\ UNCHANGED << mu, last, rm, regenVars >>
                       ELSE Return(s, "err")
    /\ UNCHANGED << store, delVars, lastRegen, dels >>
    /\ UNCHANGED notPpa

\* The PackageInfo processNewDeb builds, and the fragment rendered from it.
PkgInfo(debData) ==
    [Control |-> ParseDebControl(debData),
     Filename |-> PoolKey(ParseDebControl(debData)),
     Size |-> ByteLen(debData),
     MD5 |-> Hash("md5", debData),
     SHA1 |-> Hash("sha1", debData),
     SHA256 |-> Hash("sha256", debData)]

PackagesEntry(debData) == GeneratePackagesFile(<<PkgInfo(debData)>>)

\* processNewDeb uploads the pool object.
UploadPool(s) ==
    /\ Moved(s)
    /\ pc[s] = "pool"
    /\ \E ok \in Outcomes :
        IF ok
        THEN /\ store' = Put(store, PkgInfo(deb[s]).Filename, deb[s])
             /\ pc' = [pc EXCEPT ![s] = "entry"]
             /\ UNCHANGED << mu, last, rm, deb, regenVars, faults >>
        ELSE /\ Return(s, "err")
             /\ faults' = faults + 1
             /\ UNCHANGED store
    /\ UNCHANGED << delVars, lastRegen, polls, dels, prev, pollVars >>
    /\ UNCHANGED notPpa

\* A faulty fragment upload: the stanza is appended to the stored fragment.
UploadEntryAppends(s) ==
    /\ Moved(s)
    /\ pc[s] = "entry"
    /\ \E ok \in Outcomes :
        IF ok
        THEN /\ store' = Put(store, EntryKey(s),
                             (IF Has(EntryKey(s)) THEN store[EntryKey(s)] ELSE <<>>)
                                 \o PackagesEntry(deb[s]))
             /\ pc' = [pc EXCEPT ![s] = "lock"]
             /\ UNCHANGED << mu, last, rm, deb, regenVars, faults >>
        ELSE /\ Return(s, "err")
             /\ faults' = faults + 1
             /\ UNCHANGED store
    /\ UNCHANGED << delVars, lastRegen, polls, dels, prev, pollVars >>
    /\ UNCHANGED notPpa

\* processNewDeb uploads the source's fragment; next comes p.mu.Lock().
UploadEntry(s) ==
    /\ Moved(s)
    /\ pc[s] = "entry"
    /\ \E ok \in Outcomes :
        IF ok
        THEN /\ store' = Put(store, EntryKey(s), PackagesEntry(deb[s]))
             /\ pc' = [pc EXCEPT ![s] = "lock"]
             /\ UNCHANGED << mu, last, rm, deb, regenVars, faults >>
        ELSE /\ Return(s, "err")
             /\ faults' = faults + 1
             /\ UNCHANGED store
    /\ UNCHANGED << delVars, lastRegen, polls, dels, prev, pollVars >>
    /\ UNCHANGED notPpa

\* ------------------------------------------------------------ regeneration
\* A faulty processNewDeb: it goes on to the state upload although
\* regenerateRepoMetadata returned an error.
RegenFailsWritesState(p) ==
    /\ IF p \in Sources
       THEN /\ pc' = [pc EXCEPT ![p] = "state"]
            /\ ResetRegen(p)
            /\ UNCHANGED << mu, last, rm, deb >>
       ELSE Return(p, "err")
    /\ lastRegen' = "err"

\* regenerateRepoMetadata returns an error, and so does its caller.
RegenFails(p) ==
    /\ Return(p, "err")
    /\ lastRegen' = "err"

\* A faulty collection of the entries: only the last one read is kept.
LastEntryOnly(allEntries) ==
    IF allEntries = <<>> THEN <<>> ELSE allEntries[Len(allEntries)]

\* sort.Strings(allEntries) and strings.Join(allEntries, "").
PackagesData(allEntries) == Join(SortStrings(allEntries))

ReleaseData(packagesData, now) ==
    GenerateReleaseFile(
        << ComputeFileHash(packagesData, "main/binary-amd64/Packages"),
           ComputeFileHash(GeneratePackagesGz(packagesData),
                           "main/binary-amd64/Packages.gz") >>, now)

\* The uploads map of regenerateRepoMetadata.
Uploads(packagesData, releaseData) ==
    [key \in MetadataKeys |->
        IF key = PackagesKey THEN packagesData
        ELSE IF key = PackagesGzKey THEN GeneratePackagesGz(packagesData)
        ELSE IF key = ReleaseKey THEN releaseData
        ELSE IF key = InReleaseKey THEN ClearSign(releaseData)
        ELSE IF key = ReleaseGpgKey THEN DetachedSign(releaseData)
        ELSE PublicKey]

\* Every listed fragment was tried: the entries are sorted and joined, the
\* Release is rendered with the clock's reading and signed (signing may fail),
\* and the uploads map is built.  f counts the calls that failed before.
Collected(p, allEntries, skp, frs, sn, f) ==
    \E now \in Dates, ok \in OutcomesAt(f) :
        IF ok
        THEN /\ pkgs' = [pkgs EXCEPT ![p] = PackagesData(allEntries)]
             /\ up' = [up EXCEPT ![p] =
                    Uploads(PackagesData(allEntries), ReleaseData(PackagesData(allEntries), now))]
             /\ keys' = [keys EXCEPT ![p] = {}]
             /\ entries' = [entries EXCEPT ![p] = <<>>]
             /\ skipped' = [skipped EXCEPT ![p] = skp]
             /\ fresh' = [fresh EXCEPT ![p] = frs]
             /\ snap' = [snap EXCEPT ![p] = sn]
             /\ pc' = [pc EXCEPT ![p] = "upload"]
             /\ mu' = [mu EXCEPT ![Inst(p)] = p]
             /\ faults' = f
             /\ UNCHANGED << last, rm, deb, lastRegen >>
        ELSE /\ RegenFails(p)
             /\ faults' = f + 1

\* p.mu.Lock() of the process's own instance, then ListPrefix("meta/"),
\* keeping the keys that end in /packages-entry.
RegenList(p) ==
    /\ Moved(p)
    /\ pc[p] = "lock"
    /\ mu[Inst(p)] = "free"
    /\ \E ok \in Outcomes :
        IF ok
        THEN LET ks == { k \in ListPrefix(store, <<"meta/">>) :
                            HasSuffix(k, <<"/packages-entry">>) }
                 sn == [k \in ks |-> store[k]]
             IN IF ks = {}
                THEN Collected(p, <<>>, FALSE, TRUE, sn, faults)
                ELSE /\ keys' = [keys EXCEPT ![p] = ks]
                     /\ snap' = [snap EXCEPT ![p] = sn]
                     /\ pc' = [pc EXCEPT ![p] = "download"]
                     /\ mu' = [mu EXCEPT ![Inst(p)] = p]
                     /\ UNCHANGED << entries, pkgs, up, skipped, fresh,
                                     last, rm, deb, lastRegen, faults >>
        ELSE /\ RegenFails(p)
             /\ faults' = faults + 1
    /\ UNCHANGED << store, delVars, polls, dels, prev, pollVars >>
    /\ UNCHANGED notPpa

\* A faulty regenerateRepoMetadata: a failed download of a fragment ends the
\* regeneration with an error.
RegenDownloadAborts(p) ==
    /\ Moved(p)
    /\ pc[p] = "download"
    /\ \E key \in keys[p] : \E ok \in Tries(key) :
        LET allEntries == IF Len(store[key]) > 0
                          THEN Append(entries[p], store[key]) ELSE entries[p]
            frs == fresh[p] /\ store[key] = snap[p][key]
        IN IF ~ok
           THEN /\ RegenFails(p)
                /\ faults' = Charged(key, ok)
           ELSE IF keys[p] = {key}
           THEN Collected(p, allEntries, skipped[p], frs, snap[p], faults)
           ELSE /\ keys' = [keys EXCEPT ![p] = @ \ {key}]
                /\ entries' = [entries EXCEPT ![p] = allEntries]
                /\ fresh' = [fresh EXCEPT ![p] = frs]
                /\ UNCHANGED << mu, pc, pkgs, up, snap, skipped, faults,
                                last, rm, deb, lastRegen >>
    /\ UNCHANGED << store, delVars, polls, dels, prev, pollVars >>
    /\ UNCHANGED notPpa

\* The download of one listed fragment: appended when it succeeds and is not
\* empty, skipped with a warning when it fails.
RegenDownload(p) ==
    /\ Moved(p)
    /\ pc[p] = "download"
    /\ \E key \in keys[p] : \E ok \in Tries(key) :
        LET allEntries == IF ok /\ Len(store[key]) > 0
                          THEN Append(entries[p], store[key]) ELSE entries[p]
            skp == skipped[p] \/ ~ok
            frs == fresh[p] /\ ok /\ store[key] = snap[p][key]
        IN IF keys[p] = {key}
           THEN Collected(p, allEntries, skp, frs, snap[p], Charged(key, ok))
           ELSE /\ keys' = [keys EXCEPT ![p] = @ \ {key}]
                /\ entries' = [entries EXCEPT ![p] = allEntries]
                /\ skipped' = [skipped EXCEPT ![p] = skp]
                /\ fresh' = [fresh EXCEPT ![p] = frs]
                /\ faults' = Charged(key, ok)
                /\ UNCHANGED << mu, pc, pkgs, up, snap, last, rm, deb, lastRegen >>
    /\ UNCHANGED << store, delVars, polls, dels, prev, pollVars >>
    /\ UNCHANGED notPpa

\* A faulty processNewDeb: the state is uploaded whatever Check returned.
AfterRegenWritesState(p) ==
    IF p \in Sources
    THEN /\ pc' = [pc EXCEPT ![p] = "state"]
         /\ ResetRegen(p)
         /\ UNCHANGED << mu, last, rm, deb >>
    ELSE Return(p, "ok")

\* What follows a regeneration that returned nil: processNewDeb goes on to
\* the state upload when the state is not empty, DeleteSource returns.
AfterRegen(p) ==
    IF p \in Sources /\ chk[p] # <<>>
    THEN /\ pc' = [pc EXCEPT ![p] = "state"]
         /\ ResetRegen(p)
         /\ UNCHANGED << mu, last, rm, deb >>
    ELSE Return(p, "ok")

\* One iteration of the upload loop; the first failed upload ends the
\* regeneration.
RegenUpload(p) ==
    /\ Moved(p)
    /\ pc[p] = "upload"
    /\ \E key \in NextKeys(DOMAIN up[p]), ok \in Outcomes :
        IF ok
        THEN /\ store' = Put(store, key, up[p][key])
             /\ IF DOMAIN up[p] = {key}
                THEN /\ AfterRegen(p)
                     /\ lastRegen' = IF skipped[p] THEN "partial" ELSE "ok"
                ELSE /\ up' = [up EXCEPT ![p] = Delete(@, key)]
                     /\ UNCHANGED << mu, pc, last, rm, deb, lastRegen, keys, entries,
                                     pkgs, skipped, snap, fresh >>
             /\ UNCHANGED faults
        ELSE /\ RegenFails(p)
             /\ faults' = faults + 1
             /\ UNCHANGED store
    /\ UNCHANGED << delVars, polls, dels, prev, pollVars >>
    /\ UNCHANGED notPpa

\* A faulty state upload: the key does not depend on the source, every
\* source stores its state under meta/discord/state.
UploadStateShared(s) ==
    /\ Moved(s)
    /\ pc[s] = "state"
    /\ \E ok \in Outcomes :
        IF ok
        THEN /\ store' = Put(store, StateKey("discord"), chk[s])
             /\ wroteState' = [wroteState EXCEPT ![s] = TRUE]
             /\ Return(s, "ok")
             /\ UNCHANGED faults
        ELSE /\ Return(s, "err")
             /\ faults' = faults + 1
             /\ UNCHANGED << store, wroteState >>
    /\ UNCHANGED << chk, same, got, fetched, verdict, delVars, lastRegen, polls, dels, prev >>
    /\ UNCHANGED notPpa

\* processNewDeb stores the new state, still holding the mutex.
UploadState(s) ==
    /\ Moved(s)
    /\ pc[s] = "state"
    /\ \E ok \in Outcomes :
        IF ok
        THEN /\ store' = Put(store, StateKey(s), chk[s])
             /\ wroteState' = [wroteState EXCEPT ![s] = TRUE]
             /\ Return(s, "ok")
             /\ UNCHANGED faults
        ELSE /\ Return(s, "err")
             /\ faults' = faults + 1
             /\ UNCHANGED << store, wroteState >>
    /\ UNCHANGED << chk, same, got, fetched, verdict, delVars, lastRegen, polls, dels, prev >>
    /\ UNCHANGED notPpa

\* ------------------------------------------------------------ admin delete
\* The value of every line of the fragment that starts with "Filename: ".
RECURSIVE FilenameLines(_)
FilenameLines(lines) ==
    IF lines = <<>> THEN <<>>
    ELSE IF HasPrefix(Head(lines), <<"Filename", ": ">>)
    THEN <<TrimPrefix(Head(lines), <<"Filename", ": ">>)>> \o FilenameLines(Tail(lines))
    ELSE FilenameLines(Tail(lines))

\* DeleteSource downloads the fragment and collects its pool files; a failed
\* download leaves none to delete.
DeleteStart ==
    /\ pc[Cli] = "idle"
    /\ dels < MaxDeletes
    /\ polls + dels < MaxOps
    /\ dels' = dels + 1
    /\ \E name \in Sources : \E ok \in Tries(EntryKey(name)) :
        /\ tgt' = name
        /\ rm' = IF ok THEN FilenameLines(Split(store[EntryKey(name)], "\n")) ELSE <<>>
        /\ named' = IF Has(EntryKey(name))
                    THEN FilenameLines(Split(store[EntryKey(name)], "\n")) ELSE <<>>
        /\ intact' = (ok \/ ~Has(EntryKey(name)))
        /\ faults' = Charged(EntryKey(name), ok)
    /\ alone' = TRUE
    /\ pc' = [pc EXCEPT ![Cli] = "delete-pool"]
    /\ UNCHANGED << store, mu, deb, last, lastRegen, polls, prev, regenVars, pollVars >>
    /\ UNCHANGED notPpa

\* A faulty DeleteSource: the failed Delete of a pool file is returned.
DeletePoolFatal ==
    /\ pc[Cli] = "delete-pool"
    /\ rm # <<>>
    /\ \E ok \in Outcomes :
        IF ok
        THEN /\ store' = Delete(store, Head(rm))
             /\ rm' = Tail(rm)
             /\ UNCHANGED << intact, faults, mu, pc, deb, last, regenVars >>
        ELSE /\ Return(Cli, "err")
             /\ intact' = FALSE
             /\ faults' = faults + 1
             /\ UNCHANGED store
    /\ UNCHANGED << tgt, named, alone, prev, lastRegen, polls, dels, pollVars >>
    /\ UNCHANGED notPpa

\* The Delete of one pool file; a failure is logged and the loop goes on.
DeletePool ==
    /\ pc[Cli] = "delete-pool"
    /\ rm # <<>>
    /\ \E ok \in Outcomes :
        /\ store' = IF ok THEN Delete(store, Head(rm)) ELSE store
        /\ intact' = (intact /\ ok)
        /\ faults' = IF ok THEN faults ELSE faults + 1
    /\ rm' = Tail(rm)
    /\ UNCHANGED << mu, pc, deb, tgt, named, alone, prev, last, lastRegen, polls, dels,
                    regenVars, pollVars >>
    /\ UNCHANGED notPpa

\* The Delete of meta/<name>/packages-entry.
DeleteEntry ==
    /\ pc[Cli] = "delete-pool"
    /\ rm = <<>>
    /\ \E ok \in Outcomes :
        /\ store' = IF ok THEN Delete(store, EntryKey(tgt)) ELSE store
        /\ intact' = (intact /\ ok)
        /\ faults' = IF ok THEN faults ELSE faults + 1
    /\ pc' = [pc EXCEPT ![Cli] = "delete-state"]
    /\ UNCHANGED << mu, deb, rm, tgt, named, alone, prev, last, lastRegen, polls, dels,
                    regenVars, pollVars >>
    /\ UNCHANGED notPpa

\* The Delete of meta/<name>/state; next comes p.mu.Lock().
DeleteState ==
    /\ pc[Cli] = "delete-state"
    /\ \E ok \in Outcomes :
        /\ store' = IF ok THEN Delete(store, StateKey(tgt)) ELSE store
        /\ intact' = (intact /\ ok)
        /\ faults' = IF ok THEN faults ELSE faults + 1
    /\ pc' = [pc EXCEPT ![Cli] = "lock"]
    /\ UNCHANGED << mu, deb, rm, tgt, named, alone, prev, last, lastRegen, polls, dels,
                    regenVars, pollVars >>
    /\ UNCHANGED notPpa

\* ---------------------------------------------------------- specification
Next ==
    \/ \E s \in Sources : CheckFails(s)
    \/ \E s \in Sources : Poll(s)
    \/ \E s \in Sources : UploadPool(s)
    \/ \E s \in Sources : UploadEntry(s)
    \/ \E p \in Procs : RegenList(p)
    \/ \E p \in Procs : RegenDownload(p)
    \/ \E p \in Procs : RegenUpload(p)
    \/ \E s \in Sources : UploadState(s)
    \/ DeleteStart
    \/ DeletePool
    \/ DeleteEntry
    \/ DeleteState

Spec == Init /\ [][Next]_vars

\* The step by which process p, waiting in p.mu.Lock() with the mutex free,
\* gets it: RegenList(p), told by where it takes p.
Acquires(p) ==
    /\ pc[p] = "lock"
    /\ mu[Inst(p)] = "free"
    /\ \E to \in { "download", "upload", "idle" } : pc' = [pc EXCEPT ![p] = to]

\* The step by which process p, inside its critical section, gets on from
\* the download loop, the upload loop or the state upload: the last step of
\* RegenDownload(p) or RegenUpload(p), a failing one, or UploadState(p).
Proceeds(p) ==
    /\ pc[p] \in { "download", "upload", "state" }
    /\ \E to \in { "upload", "state", "idle" } \ {pc[p]} : pc' = [pc EXCEPT ![p] = to]

\* Every store and signer call returns, every loop of the critical section
\* runs over a finite list and every goroutine keeps running, so a process
\* inside the critical section gets on; a process waiting in p.mu.Lock()
\* gets the mutex once it is free.
FairPpa ==
    \A p \in Procs :
        /\ WF_pc(Acquires(p))
        /\ WF_pc(Proceeds(p))

SpecFair == Spec /\ FairPpa

\* ------------------------------------------------------ Run and its workers
\* The worker of source s is inside poll.
InCycle(s) == wk[s] \in { "poll", "lock", "regen" }

\* runPoller calls poll.
Begin(s) ==
    /\ wk' = [wk EXCEPT ![s] = "poll"]
    /\ cycles' = [cycles EXCEPT ![s] = @ + 1]
    /\ inflight' = [inflight EXCEPT ![s] = @ + 1]

\* poll returns to runPoller, which waits in its select; after the first call
\* it has created its ticker.
End(s, how) ==
    /\ wk' = [wk EXCEPT ![s] = "select"]
    /\ inflight' = [inflight EXCEPT ![s] = @ - 1]
    /\ ended' = [ended EXCEPT ![s] = how]
    /\ ticker' = [ticker EXCEPT ![s] = IF @ = "none" THEN "running" ELSE @]

\* runPoller: the call of poll at startup, before the ticker exists.
StartupPoll(s) ==
    /\ wk[s] = "start"
    /\ Begin(s)
    /\ UNCHANGED << ctxDone, ticker, tickC, rmu, http, run, observer, taken, ended, whenDone >>
    /\ UNCHANGED notRun

\* A faulty poll: an error ends the worker.
PollReturnsStops(s) ==
    /\ wk[s] = "poll"
    /\ \E how \in { "err", "skip" } :
        /\ wk' = [wk EXCEPT ![s] = IF how = "err" THEN "returned" ELSE "select"]
        /\ inflight' = [inflight EXCEPT ![s] = @ - 1]
        /\ ended' = [ended EXCEPT ![s] = how]
        /\ ticker' = [ticker EXCEPT ![s] = IF @ = "none" THEN "running" ELSE @]
    /\ UNCHANGED << ctxDone, tickC, rmu, http, run, observer, cycles, taken, whenDone >>
    /\ UNCHANGED notRun

\* poll returns before the regeneration: Check, Fetch, the validation or an
\* upload failed ("err"), or there is no new version ("skip").
PollReturns(s) ==
    /\ wk[s] = "poll"
    /\ \E how \in { "err", "skip" } : End(s, how)
    /\ UNCHANGED << ctxDone, tickC, rmu, http, run, observer, cycles, taken, whenDone >>
    /\ UNCHANGED notRun

\* processNewDeb has stored the pool object and the fragment and calls
\* p.mu.Lock().
PollLocks(s) ==
    /\ wk[s] = "poll"
    /\ wk' = [wk EXCEPT ![s] = "lock"]
    /\ UNCHANGED << ctxDone, ticker, tickC, rmu, http, run, observer, cycles, inflight,
                    taken, ended, whenDone >>
    /\ UNCHANGED notRun

\* p.mu.Lock() returns: the worker holds the mutex.
Lock(s) ==
    /\ wk[s] = "lock"
    /\ rmu = "free"
    /\ rmu' = s
    /\ wk' = [wk EXCEPT ![s] = "regen"]
    /\ UNCHANGED << ctxDone, ticker, tickC, http, run, observer, cycles, inflight, taken,
                    ended, whenDone >>
    /\ UNCHANGED notRun

\* The regeneration and the state upload are over, well or not; the deferred
\* Unlock runs and poll returns.
RegenReturns(s) ==
    /\ wk[s] = "regen"
    /\ \E how \in { "ok", "err" } : End(s, how)
    /\ rmu' = "free"
    /\ UNCHANGED << ctxDone, tickC, http, run, observer, cycles, taken, whenDone >>
    /\ UNCHANGED notRun

\* The ticker of s fires: ticker.C holds one tick, further ones are dropped.
Tick(s) ==
    /\ ticker[s] = "running"
    /\ tickC[s] = 0
    /\ tickC' = [tickC EXCEPT ![s] = 1]
    /\ UNCHANGED << ctxDone, wk, ticker, rmu, http, run, observer, cycles, inflight, taken,
                    ended, whenDone >>
    /\ UNCHANGED notRun

\* A faulty runPoller: every tick starts a call of poll, also while one runs.
TickPollAnytime(s) ==
    /\ wk[s] \notin { "start", "returned" }
    /\ tickC[s] = 1
    /\ cycles[s] <= MaxCycles
    /\ tickC' = [tickC EXCEPT ![s] = 0]
    /\ taken' = [taken EXCEPT ![s] = @ + 1]
    /\ Begin(s)
    /\ UNCHANGED << ctxDone, ticker, rmu, http, run, observer, ended, whenDone >>
    /\ UNCHANGED notRun

\* runPoller: the select receives from ticker.C and calls poll.
TickPoll(s) ==
    /\ wk[s] = "select"
    /\ tickC[s] = 1
    /\ cycles[s] < MaxCycles
    /\ tickC' = [tickC EXCEPT ![s] = 0]
    /\ taken' = [taken EXCEPT ![s] = @ + 1]
    /\ Begin(s)
    /\ UNCHANGED << ctxDone, ticker, rmu, http, run, observer, ended, whenDone >>
    /\ UNCHANGED notRun

\* The root context is cancelled (an interrupt or a termination signal).
Cancel ==
    /\ ~ctxDone
    /\ ctxDone' = TRUE
    /\ whenDone' = IF \E s \in Sources : wk[s] = "lock" THEN "blocked"
                    ELSE IF \E s \in Sources : InCycle(s) THEN "busy" ELSE "quiet"
    /\ UNCHANGED << wk, ticker, tickC, rmu, http, run, observer, cycles, inflight, taken,
                    ended >>
    /\ UNCHANGED notRun

\* runPoller: the select receives from ctx.Done() and the worker returns; the
\* deferred ticker.Stop() and wg.Done() run.
PollerReturns(s) ==
    /\ wk[s] = "select"
    /\ ctxDone
    /\ wk' = [wk EXCEPT ![s] = "returned"]
    /\ ticker' = [ticker EXCEPT ![s] = "stopped"]
    /\ UNCHANGED << ctxDone, tickC, rmu, http, run, observer, cycles, inflight, taken,
                    ended, whenDone >>
    /\ UNCHANGED notRun

\* A faulty observer: it ends without calling server.Shutdown.
ShutdownForgotten ==
    /\ observer = "waiting"
    /\ ctxDone
    /\ observer' = "draining"
    /\ UNCHANGED << ctxDone, wk, ticker, tickC, rmu, http, run, cycles, inflight, taken,
                    ended, whenDone >>
    /\ UNCHANGED notRun

\* The observer goroutine: ctx.Done() is closed and server.Shutdown is called,
\* which closes the listener.
ShutdownCalled ==
    /\ observer = "waiting"
    /\ ctxDone
    /\ observer' = "draining"
    /\ http' = IF http = "listening" THEN "closed" ELSE http
    /\ UNCHANGED << ctxDone, wk, ticker, tickC, rmu, run, cycles, inflight, taken,
                    ended, whenDone >>
    /\ UNCHANGED notRun

\* server.Shutdown returns, drained or after its five seconds, and the
\* observer's wg.Done() runs.
ShutdownReturns ==
    /\ observer = "draining"
    /\ observer' = "done"
    /\ UNCHANGED << ctxDone, wk, ticker, tickC, rmu, http, run, cycles, inflight, taken,
                    ended, whenDone >>
    /\ UNCHANGED notRun

\* server.ListenAndServe returns an error other than ErrServerClosed, and Run
\* returns it.
ListenFails ==
    /\ run = "serving"
    /\ http = "listening"
    /\ http' = "failed"
    /\ run' = "failed"
    /\ UNCHANGED << ctxDone, wk, ticker, tickC, rmu, observer, cycles, inflight, taken,
                    ended, whenDone >>
    /\ UNCHANGED notRun

\* server.ListenAndServe returns ErrServerClosed and Run calls wg.Wait().
ServeReturns ==
    /\ run = "serving"
    /\ http = "closed"
    /\ run' = "waiting"
    /\ UNCHANGED << ctxDone, wk, ticker, tickC, rmu, http, observer, cycles, inflight,
                    taken, ended, whenDone >>
    /\ UNCHANGED notRun

\* wg.Wait() returns, every wg.Done() having run, and Run returns nil.
RunReturns ==
    /\ run = "waiting"
    /\ observer = "done"
    /\ \A s \in Sources : wk[s] = "returned"
    /\ run' = "returned"
    /\ UNCHANGED << ctxDone, wk, ticker, tickC, rmu, http, observer, cycles, inflight,
                    taken, ended, whenDone >>
    /\ UNCHANGED notRun

NextRun ==
    \/ \E s \in Sources : StartupPoll(s)
    \/ \E s \in Sources : PollReturns(s)
    \/ \E s \in Sources : PollLocks(s)
    \/ \E s \in Sources : Lock(s)
    \/ \E s \in Sources : RegenReturns(s)
    \/ \E s \in Sources : Tick(s)
    \/ \E s \in Sources : TickPoll(s)
    \/ Cancel
    \/ \E s \in Sources : PollerReturns(s)
    \/ ShutdownCalled
    \/ ShutdownReturns
    \/ ListenFails
    \/ ServeReturns
    \/ RunReturns

SpecRun == Init /\ [][NextRun]_vars

\* Every goroutine keeps running and every ticker keeps firing; a worker
\* waiting for the mutex gets it, and a select whose ctx.Done() case stays
\* ready takes it in the end.
FairRun ==
    /\ \A s \in Sources :
        /\ WF_vars(StartupPoll(s))
        /\ WF_vars(PollReturns(s) \/ PollLocks(s))
        /\ SF_vars(Lock(s))
        /\ WF_vars(RegenReturns(s))
        /\ WF_vars(Tick(s))
        /\ WF_vars(TickPoll(s))
        /\ SF_vars(PollerReturns(s))
    /\ WF_vars(ShutdownCalled)
    /\ WF_vars(ShutdownReturns)
    /\ WF_vars(ServeReturns)
    /\ WF_vars(RunReturns)

SpecRunFair == SpecRun /\ FairRun

\* ------------------------------------------------------------ HTTPWithRetry
\* http.StatusTooManyRequests
StatusTooManyRequests == 429

\* The attempts of one call: for attempt := range 3.
MaxAttempts == 3

\* The statuses an upstream answers with.
Statuses == { 200, 404, StatusTooManyRequests }

\* The Retry-After values a 429 carries, one character per token; <<>> is a
\* response without the header.
RetryAfters ==
    { <<>>, <<"0">>, <<"-", "5">>, <<"+", "5">>, <<"7">>, <<"3", "6", "0", "0">>,
      <<"3", "6", "0", "1">>, <<"1", ".", "5">>, <<"W", "e", "d">>,
      <<"9", "9", "9", "9", "9", "9", "9", "9", "9", "9",
        "9", "9", "9", "9", "9", "9", "9", "9", "9", "9">> }

DigitVal(c) == (CHOOSE i \in 1..Len(Digits) : Digits[i] = c) - 1

IsDigit(c) == \E i \in 1..Len(Digits) : Digits[i] = c

\* The value of a string of digits.
RECURSIVE DigitsVal(_)
DigitsVal(ds) ==
    IF ds = <<>> THEN 0
    ELSE 10 * DigitsVal(SubSeq(ds, 1, Len(ds) - 1)) + DigitVal(ds[Len(ds)])

\* strconv.Atoi: an optional sign and decimal digits; anything else is a
\* syntax error, and a value of 20 digits or more is out of the range of int.
Atoi(str) ==
    LET signed == str # <<>> /\ Head(str) \in { "+", "-" }
        ds == IF signed THEN Tail(str) ELSE str
    IN IF ds = <<>> \/ \E i \in 1..Len(ds) : ~IsDigit(ds[i]) THEN [err |-> TRUE, n |-> 0]
       ELSE IF Len(ds) >= 20 THEN [err |-> TRUE, n |-> 0]
       ELSE [err |-> FALSE,
             n |-> IF signed /\ Head(str) = "-" THEN 0 - DigitsVal(ds) ELSE DigitsVal(ds)]

Min(a, b) == IF a < b THEN a ELSE b

\* A faulty backoff: Retry-After is taken as it comes, without the cap.
BackoffUncapped(k, ra) ==
    IF ra # <<>> /\ ~Atoi(ra).err /\ Atoi(ra).n > 0 THEN Atoi(ra).n ELSE 30 * 2^k

\* The wait after a 429 on attempt k whose Retry-After is ra, in seconds.
Backoff(k, ra) ==
    IF ra # <<>> /\ ~Atoi(ra).err /\ Atoi(ra).n > 0
    THEN Min(Atoi(ra).n, 3600)
    ELSE 30 * 2^k

\* A faulty test of the response: every status but 200 is retried.
NotOK(status) == status # 200

\* resp.StatusCode == http.StatusTooManyRequests
RateLimited(status) == status = StatusTooManyRequests

\* The call returns.
Returns(what) ==
    /\ hpc' = "done"
    /\ result' = what

\* HTTPWithRetry is called.
Call ==
    /\ hpc = "idle"
    /\ hpc' = "loop"
    /\ UNCHANGED << attempt, requests, resps, heads, waits, result, hctx, pcAtCancel,
                    reqAtCancel >>
    /\ UNCHANGED notRetry

\* The request is built and HTTPClient.Do is called: it sends the request,
\* unless the context is cancelled already, when it returns the context's
\* error without sending.
Send ==
    /\ hpc = "loop"
    /\ IF hctx
       THEN Returns("cancelled") /\ UNCHANGED requests
       ELSE /\ hpc' = "inflight"
            /\ requests' = requests + 1
            /\ UNCHANGED result
    /\ UNCHANGED << attempt, resps, heads, waits, hctx, pcAtCancel, reqAtCancel >>
    /\ UNCHANGED notRetry

\* HTTPClient.Do returns: the context's error when it is cancelled, a
\* transport error, or a response; a response that is no 429 is returned to
\* the caller, a 429 sets the wait and the call enters its select.
Receive ==
    /\ hpc = "inflight"
    /\ IF hctx
       THEN Returns("cancelled") /\ UNCHANGED << resps, heads, waits >>
       ELSE \/ Returns("error") /\ UNCHANGED << resps, heads, waits >>
            \/ \E status \in Statuses :
                /\ resps' = Append(resps, status)
                /\ IF RateLimited(status)
                   THEN \E ra \in RetryAfters :
                        /\ heads' = Append(heads, ra)
                        /\ waits' = Append(waits, Backoff(attempt, ra))
                        /\ hpc' = "backoff"
                        /\ UNCHANGED result
                   ELSE Returns("response") /\ UNCHANGED << heads, waits >>
    /\ UNCHANGED << attempt, requests, hctx, pcAtCancel, reqAtCancel >>
    /\ UNCHANGED notRetry

\* A faulty select: the wait is sat out also when the context is cancelled.
BackoffElapsesAnyway ==
    /\ hpc = "backoff"
    /\ attempt' = attempt + 1
    /\ IF attempt + 1 = MaxAttempts
       THEN Returns("rate-limited")
       ELSE hpc' = "loop" /\ UNCHANGED result
    /\ UNCHANGED << requests, resps, heads, waits, hctx, pcAtCancel, reqAtCancel >>
    /\ UNCHANGED notRetry

\* The select receives from time.After(wait), the context not being
\* cancelled: the loop goes on, and after the last attempt the call returns
\* its rate-limited error.
BackoffElapses ==
    /\ hpc = "backoff"
    /\ ~hctx
    /\ attempt' = attempt + 1
    /\ IF attempt + 1 = MaxAttempts
       THEN Returns("rate-limited")
       ELSE hpc' = "loop" /\ UNCHANGED result
    /\ UNCHANGED << requests, resps, heads, waits, hctx, pcAtCancel, reqAtCancel >>
    /\ UNCHANGED notRetry

\* The select receives from ctx.Done(): the call returns ctx.Err().
BackoffCancelled ==
    /\ hpc = "backoff"
    /\ hctx
    /\ Returns("cancelled")
    /\ UNCHANGED << attempt, requests, resps, heads, waits, hctx, pcAtCancel, reqAtCancel >>
    /\ UNCHANGED notRetry

\* The context of the call is cancelled.
CancelCall ==
    /\ ~hctx
    /\ hpc \notin { "idle", "done" }
    /\ hctx' = TRUE
    /\ pcAtCancel' = hpc
    /\ reqAtCancel' = requests
    /\ UNCHANGED << hpc, attempt, requests, resps, heads, waits, result >>
    /\ UNCHANGED notRetry

NextRetry ==
    \/ Call
    \/ Send
    \/ Receive
    \/ BackoffElapses
    \/ BackoffCancelled
    \/ CancelCall

SpecRetry == Init /\ [][NextRetry]_vars

\* ------------------------------------------------------------ the HTTP server
\* The requests served in one run of the model.
MaxRequests == 2

\* The paths requested, as sent: one token for "/", one for ".", one for a
\* percent-encoded dot, and one for each run of other characters.
Paths ==
    { <<"/">>,
      <<"/", "key", ".", "gpg">>,
      <<"/", "other">>,
      <<"/", "pool">>,
      <<"/", "pool", "/", "x">>,
      <<"/", "dists", "/", "x">>,
      <<"/", "pool", "/", ".", ".", "/", "x">>,
      <<"/", "pool", "/", ".", ".", "/", "dists", "/", "x">>,
      <<"/", "dists", "/", "x", "/", ".", ".">>,
      <<"/", "pool", "/", ".", "/", "x">>,
      <<"/", "pool", "/", "/", "x">>,
      <<"/", "pool", "/", "x", ".", ".", "x">>,
      <<"/", "dists", "/", ".", ".", ".">>,
      <<"/", "pool", "/", "%2e", "%2e", "/", "x">> }

Methods == { "GET", "POST" }

\* The rooted path of a sequence of segments.
RECURSIVE JoinRooted(_)
JoinRooted(segs) ==
    IF segs = <<>> THEN <<>> ELSE <<"/">> \o Head(segs) \o JoinRooted(Tail(segs))

\* path.Clean on the segments of a rooted path: empty and "." segments go,
\* a ".." segment takes the segment before it along.
RECURSIVE CleanSegs(_, _)
CleanSegs(segs, out) ==
    IF segs = <<>> THEN out
    ELSE LET seg == Head(segs)
         IN CleanSegs(Tail(segs),
                IF seg = <<>> \/ seg = <<".">> THEN out
                ELSE IF seg = <<".", ".">>
                     THEN (IF out = <<>> THEN out ELSE SubSeq(out, 1, Len(out) - 1))
                     ELSE Append(out, seg))

\* path.Clean of a rooted path.
PathClean(path) ==
    LET np == JoinRooted(CleanSegs(Split(path, "/"), <<>>))
    IN IF np = <<>> THEN <<"/">> ELSE np

\* net/http cleanPath: path.Clean, with the trailing slash put back.
cleanPath(path) ==
    LET np == PathClean(path)
    IN IF path[Len(path)] = "/" /\ np # <<"/">> THEN Append(np, "/") ELSE np

\* URL.Path of a request: the path as sent with its escapes decoded.
URLPath(path) == [i \in 1..Len(path) |-> IF path[i] = "%2e" THEN "." ELSE path[i]]

\* strings.Contains(key, "..")
ContainsDotDot(key) == \E i \in 1..(Len(key) - 1) : key[i] = "." /\ key[i + 1] = "."

\* The handler the patterns of the mux select for a clean path, whatever the
\* method: "redirect" is the mux's own answer for a path that lacks the
\* trailing slash of a registered subtree.
Pattern(path) ==
    IF path = <<"/", "key", ".", "gpg">> THEN "handleKeyGPG"
    ELSE IF HasPrefix(path, <<"/", "dists", "/">>) \/ HasPrefix(path, <<"/", "pool", "/">>)
    THEN "handleProxy"
    ELSE IF path = <<"/">> THEN "handleIndex"
    ELSE IF path \in { <<"/", "dists">>, <<"/", "pool">> } THEN "redirect"
    ELSE "none"

\* The server replies.
Reply(code) ==
    /\ spc' = "done"
    /\ sstatus' = code

\* A request arrives.
Arrive ==
    /\ spc \in { "idle", "done" }
    /\ served < MaxRequests
    /\ \E method \in Methods, path \in Paths :
        sreq' = [method |-> method, path |-> path]
    /\ spc' = "mux"
    /\ sstatus' = 0
    /\ sget' = <<>>
    /\ served' = served + 1
    /\ UNCHANGED notServe

\* The mux routes the request: a path that is not clean is redirected to its
\* clean form before any pattern is looked at; a clean path goes to the
\* handler of its pattern when the method is GET, and is answered 405 for
\* another method and 404 without a pattern.
Route ==
    /\ spc = "mux"
    /\ IF cleanPath(sreq.path) # sreq.path \/ Pattern(sreq.path) = "redirect"
       THEN Reply(301)
       ELSE IF Pattern(sreq.path) = "none" THEN Reply(404)
       ELSE IF sreq.method # "GET" THEN Reply(405)
       ELSE spc' = Pattern(sreq.path) /\ UNCHANGED sstatus
    /\ UNCHANGED << sreq, sget, served >>
    /\ UNCHANGED notServe

\* handleKeyGPG
handleKeyGPG ==
    /\ spc = "handleKeyGPG"
    /\ Reply(200)
    /\ UNCHANGED << sreq, sget, served >>
    /\ UNCHANGED notServe

\* handleIndex
handleIndex ==
    /\ spc = "handleIndex"
    /\ Reply(200)
    /\ UNCHANGED << sreq, sget, served >>
    /\ UNCHANGED notServe

\* handleProxy: a key with ".." is answered 400; any other key is fetched
\* from the store, which has it or fails.
handleProxy ==
    /\ spc = "handleProxy"
    /\ LET key == TrimPrefix(URLPath(sreq.path), <<"/">>)
       IN IF ContainsDotDot(key)
          THEN Reply(400) /\ UNCHANGED sget
          ELSE /\ sget' = Append(sget, key)
               /\ \E found \in BOOLEAN : Reply(IF found THEN 200 ELSE 404)
    /\ UNCHANGED << sreq, served >>
    /\ UNCHANGED notServe

NextServe ==
    \/ Arrive
    \/ Route
    \/ handleKeyGPG
    \/ handleIndex
    \/ handleProxy

SpecServe == Init /\ [][NextServe]_vars

\* ------------------------------------------------------------ the deb codec
\* The fields of the control records given to BuildDeb.
MaxFields == 2
\* The fields of a control record that follow its Package and Version.
MaxExtra == 1

\* Keys of a control field: two well-known ones, an empty one, one with a
\* colon in it, and the key of the line GeneratePackagesFile adds.
FieldKeys == { <<"Package">>, <<"Version">>, <<>>, <<"X", ":", "Y">>, <<"Filename">> }

\* Values of a control field: a word, nothing, a word after a space, a value
\* of two lines with the second indented, one with the second not, and a
\* version with two dots in a row, and the key of a stored object.
FieldValues ==
    { <<"d">>, <<>>, <<" ", "d">>, <<"d", "\n", " ", "x">>, <<"d", "\n", "x">>,
      <<"1", ".", ".", "2">>, ReleaseKey }

ControlFields == { <<k, v>> : k \in FieldKeys, v \in FieldValues }

\* The records of up to MaxFields fields, and those of a package d of
\* version d with up to MaxExtra further fields.
Controls ==
    { [Fields |-> fs] : fs \in UNION { [1..n -> ControlFields] : n \in 0..MaxFields } }
        \cup { [Fields |-> << << <<"Package">>, <<"d">> >>, << <<"Version">>, <<"d">> >> >> \o fs] :
                    fs \in UNION { [1..n -> ControlFields] : n \in 1..MaxExtra } }

\* The entry lists given to BuildDeb: none, one file, two files out of
\* order, an entry without a path, and a file of 512 MiB.
EntryLists ==
    { <<>>,
      << [Path |-> <<"/", "x">>, Body |-> <<BigTok>>] >>,
      << [Path |-> <<"/", "x">>, Body |-> <<"y">>] >>,
      << [Path |-> <<"y">>, Body |-> <<>>], [Path |-> <<"/", "x">>, Body |-> <<"y">>] >>,
      << [Path |-> <<>>, Body |-> <<"y">>] >> }

\* BuildDeb is called with a control record and entries.
Build ==
    /\ cpc = "idle"
    /\ \E ctrl \in Controls, list \in EntryLists :
        /\ cctrl' = ctrl
        /\ centries' = list
        /\ IF DataTarPanics(list)
           THEN cpc' = "panicked" /\ UNCHANGED cdeb
           ELSE cpc' = "built" /\ cdeb' = BuildDeb(ctrl, list)
    /\ UNCHANGED << cparsed, ckey, cfrag, cdel, cfetched >>
    /\ UNCHANGED notDeb

\* ParseDebControl is called with the archive BuildDeb returned.
Parse ==
    /\ cpc = "built"
    /\ cpc' = "parsed"
    /\ cparsed' = ParseDebControl(cdeb)
    /\ UNCHANGED << cctrl, centries, cdeb, ckey, cfrag, cdel, cfetched >>
    /\ UNCHANGED notDeb

\* An upstream serves the archive: Fetch of the adapter reads it under its
\* limit and processNewDeb is called with what it read: its checks, and for
\* bytes it accepts the pool key and the fragment it builds.
Process ==
    /\ cpc = "parsed"
    /\ cpc' = "processed"
    /\ cfetched' = LimitRead(cdeb)
    /\ IF Accepts(cfetched')
       THEN ckey' = PkgInfo(cfetched').Filename /\ cfrag' = PackagesEntry(cfetched')
       ELSE ckey' = <<>> /\ cfrag' = <<>>
    /\ UNCHANGED << cctrl, centries, cdeb, cparsed, cdel >>
    /\ UNCHANGED notDeb

\* DeleteSource is called for the source of that fragment: the pool files it
\* deletes are those of the lines that start with "Filename: ".
DeleteFiles ==
    /\ cpc = "processed"
    /\ cpc' = "deleted"
    /\ cdel' = IF cfrag = <<>> THEN <<>> ELSE FilenameLines(Split(cfrag, "\n"))
    /\ UNCHANGED << cctrl, centries, cdeb, cparsed, ckey, cfrag, cfetched >>
    /\ UNCHANGED notDeb

NextDeb ==
    \/ Build
    \/ Parse
    \/ Process
    \/ DeleteFiles

SpecDeb == Init /\ [][NextDeb]_vars

\* ------------------------------------------------------------ the ar codec
\* Entries written to one archive.
MaxEntries == 2

\* Bytes of the largest payload of an entry.
MaxPayload == 3

\* Bytes of the largest buffer given to Read.
MaxBuf == 2

arHeaderSize == 60

\* The bytes of arGlobalHeader, one per token as every byte of an archive.
ArMagic == << "!", "<", "a", "r", "c", "h", ">", "\n" >>

\* The byte 0x60, the first of the two trailer bytes of a header.
Grave == "0x60"

Spaces(n) == [i \in 1..n |-> " "]

\* copy(buf[lo:hi], fmt.Sprintf("%-<w>s", str)): padded with spaces on the
\* right to the width, and cut at the width.
PadTo(str, w) == IF Len(str) >= w THEN SubSeq(str, 1, w) ELSE str \o Spaces(w - Len(str))

\* fmt's %o of a non-negative integer.
RECURSIVE Octal(_)
Octal(n) == IF n < 8 THEN <<Digits[n + 1]>> ELSE Append(Octal(n \div 8), Digits[(n % 8) + 1])

\* The 60 bytes writeEntry writes as the header of an entry.
HeaderBytes(h, size) ==
    PadTo(h.Name, 16) \o PadTo(Itoa(h.ModTime), 12) \o PadTo(Itoa(0), 6) \o PadTo(Itoa(0), 6)
        \o PadTo(Octal(h.Mode), 8) \o PadTo(Itoa(size), 10) \o << Grave, "\n" >>

\* A faulty writeEntry: no pad byte after the data.
writeEntryUnpadded(h, data) == HeaderBytes(h, Len(data)) \o data

\* What writeEntry writes: the header, the data, and a "\n" after data of
\* odd length.
writeEntry(h, data) ==
    HeaderBytes(h, Len(data)) \o data \o (IF Len(data) % 2 = 1 THEN << "\n" >> ELSE <<>>)

\* The names of the entries written: a short one, and one of 17 bytes.
EntryNames ==
    { << "a" >>,
      << "c", "o", "n", "t", "r", "o", "l", ".", "t", "a", "r", ".", "z", "s", "t", ".", "0" >> }

\* The payloads written: every length up to MaxPayload.
Payloads == { [i \in 1..n |-> "x"] : n \in 0..MaxPayload }

\* The headers given to writeEntry: the mode BuildDeb gives, one modification time.
EntryHeaders == { [Name |-> name, ModTime |-> 5, Mode |-> 33188] : name \in EntryNames }

\* newArWriter writes the global header.
NewArWriter ==
    /\ wpc = "none"
    /\ wpc' = "open"
    /\ wout' = ArMagic
    /\ UNCHANGED << wlog, rpc, rin, rpos, remaining, pad, rok, rhdr, rerr, rat, rbuf, rgot,
                    rplain, skip >>
    /\ UNCHANGED notAr

\* writeEntry is called with a header and data.
WriteEntry ==
    /\ wpc = "open"
    /\ rpc = "none"
    /\ Len(wlog) < MaxEntries
    /\ \E h \in EntryHeaders, data \in Payloads :
        /\ wout' = wout \o writeEntry(h, data)
        /\ wlog' = Append(wlog, [at |-> Len(wout), size |-> Len(data)])
    /\ UNCHANGED << wpc, rpc, rin, rpos, remaining, pad, rok, rhdr, rerr, rat, rbuf, rgot,
                    rplain, skip >>
    /\ UNCHANGED notAr

\* What may have become of an archive before it is read: nothing, a byte of
\* the global header changed, a trailer byte of the first header changed, its
\* size or its mode field made no number, its size made negative, the last
\* byte lost.
Damages == { "none", "magic", "trailer", "size", "mode", "negative", "cut" }

Damaged(bytes, damage) ==
    CASE damage = "magic" -> [bytes EXCEPT ![2] = "?"]
      [] damage = "trailer" /\ Len(bytes) >= 68 -> [bytes EXCEPT ![68] = " "]
      [] damage = "size" /\ Len(bytes) >= 68 -> [bytes EXCEPT ![58] = "z"]
      [] damage = "mode" /\ Len(bytes) >= 68 -> [bytes EXCEPT ![49] = "z"]
      [] damage = "negative" /\ Len(bytes) >= 68 -> [bytes EXCEPT ![57] = "-", ![58] = "1"]
      [] damage = "cut" -> SubSeq(bytes, 1, Len(bytes) - 1)
      [] OTHER -> bytes

NoError == "none"

\* newArReader: the 8 bytes of the global header are read and compared.
NewArReader ==
    /\ wpc = "open"
    /\ rpc = "none"
    /\ \E damage \in Damages :
        /\ rin' = Damaged(wout, damage)
        /\ rplain' = (Damaged(wout, damage) = wout)
        /\ IF Len(Damaged(wout, damage)) < Len(ArMagic)
           THEN rpc' = "ended" /\ rerr' = "reading ar global header" /\ rpos' = Len(rin')
           ELSE IF SubSeq(Damaged(wout, damage), 1, Len(ArMagic)) # ArMagic
           THEN rpc' = "ended" /\ rerr' = "not an ar archive" /\ rpos' = Len(ArMagic)
           ELSE rpc' = "open" /\ rerr' = NoError /\ rpos' = Len(ArMagic)
    /\ UNCHANGED << wpc, wout, wlog, remaining, pad, rok, rhdr, rat, rbuf, rgot, skip >>
    /\ UNCHANGED notAr

\* strconv.ParseInt(str, 8, 64): an optional sign and octal digits.
IsOctal(str) ==
    LET ds == IF str # <<>> /\ Head(str) \in { "+", "-" } THEN Tail(str) ELSE str
    IN ds # <<>> /\ \A i \in 1..Len(ds) : IsDigit(ds[i]) /\ DigitVal(ds[i]) < 8

RECURSIVE OctalVal(_)
OctalVal(ds) ==
    IF ds = <<>> THEN 0
    ELSE 8 * OctalVal(SubSeq(ds, 1, Len(ds) - 1)) + DigitVal(ds[Len(ds)])

\* mode, _ = strconv.ParseInt(s, 8, 64) for a field that is not empty: the
\* error is dropped, and the value is 0 with it.
ModeOf(field) ==
    LET str == TrimSpace(field)
    IN IF str = <<>> \/ ~IsOctal(str) THEN 0
       ELSE IF Head(str) = "-" THEN 0 - OctalVal(Tail(str))
       ELSE IF Head(str) = "+" THEN OctalVal(Tail(str))
       ELSE OctalVal(str)

\* modTime, _ = strconv.ParseInt(s, 10, 64), likewise.
ModTimeOf(field) ==
    LET str == TrimSpace(field)
    IN IF str = <<>> \/ Atoi(str).err THEN 0 ELSE Atoi(str).n

\* strings.TrimRight(str, " ")
RECURSIVE TrimRightSpaces(_)
TrimRightSpaces(str) ==
    IF str # <<>> /\ str[Len(str)] = " " THEN TrimRightSpaces(SubSeq(str, 1, Len(str) - 1))
    ELSE str

\* Go's size%2 == 1, which no negative size satisfies.
IsOdd(n) == n >= 0 /\ n % 2 = 1

\* The call of next ends with an error.
NextFails(err, consumed) ==
    /\ rpc' = "ended"
    /\ rerr' = err
    /\ rok' = FALSE
    /\ rhdr' = NoHeader
    /\ rpos' = consumed

\* next, once the rest of the previous entry is skipped: the header is read
\* at the offset given, checked and parsed.
ReadHeader(at) ==
    IF Len(rin) - at < arHeaderSize
    THEN /\ NextFails(IF Len(rin) = at THEN "EOF" ELSE "unexpected EOF", Len(rin))
         /\ UNCHANGED << rat, rbuf >>
         /\ remaining' = 0 /\ pad' = 0
    ELSE LET buf == SubSeq(rin, at + 1, at + arHeaderSize)
             size == Atoi(TrimSpace(SubSeq(buf, 49, 58)))
         IN /\ rbuf' = buf
            /\ rat' = at
            /\ IF buf[59] # Grave \/ buf[60] # "\n"
               THEN /\ NextFails("invalid ar entry header magic", at + arHeaderSize)
                    /\ remaining' = 0 /\ pad' = 0
               ELSE IF size.err
               THEN /\ NextFails("parsing ar entry size", at + arHeaderSize)
                    /\ remaining' = 0 /\ pad' = 0
               ELSE /\ rok' = TRUE
                    /\ rerr' = NoError
                    /\ rhdr' = [Name |-> TrimRightSpaces(SubSeq(buf, 1, 16)),
                                ModTime |-> ModTimeOf(SubSeq(buf, 17, 28)),
                                Size |-> size.n,
                                Mode |-> ModeOf(SubSeq(buf, 41, 48))]
                    /\ remaining' = size.n
                    /\ pad' = IF IsOdd(size.n) THEN 1 ELSE 0
                    /\ rpos' = at + arHeaderSize
                    /\ UNCHANGED rpc

\* A faulty next: the pad byte of the previous entry is not skipped.
ArNextUnpadded ==
    /\ rpc = "open"
    /\ rgot' = <<>>
    /\ skip' = remaining
    /\ IF remaining > 0 /\ Len(rin) - rpos < remaining
       THEN /\ NextFails("EOF", Len(rin))
            /\ UNCHANGED << remaining, pad, rat, rbuf >>
       ELSE ReadHeader(IF remaining > 0 THEN rpos + remaining ELSE rpos)
    /\ UNCHANGED << wpc, wout, wlog, rin, rplain >>
    /\ UNCHANGED notAr

\* next: what is left of the previous entry and its pad byte are skipped,
\* then the header is read.
ArNext ==
    /\ rpc = "open"
    /\ rgot' = <<>>
    /\ skip' = remaining + pad
    /\ IF remaining + pad > 0 /\ Len(rin) - rpos < remaining + pad
       THEN /\ NextFails("EOF", Len(rin))
            /\ UNCHANGED << remaining, pad, rat, rbuf >>
       ELSE ReadHeader(IF remaining + pad > 0 THEN rpos + remaining + pad ELSE rpos)
    /\ UNCHANGED << wpc, wout, wlog, rin, rplain >>
    /\ UNCHANGED notAr

\* Read with a buffer of blen bytes: nothing at the end of the entry, a
\* panic on b[:ar.remaining] when remaining is negative, else what the
\* underlying reader has of the first min(blen, remaining) bytes.
ArRead ==
    /\ rpc = "open"
    /\ rok
    /\ \E blen \in 0..MaxBuf :
        IF remaining = 0
        THEN /\ rerr' = "EOF"
             /\ UNCHANGED << rpc, rpos, remaining, rgot >>
        ELSE IF blen > remaining /\ remaining < 0
        THEN /\ rpc' = "panicked"
             /\ UNCHANGED << rerr, rpos, remaining, rgot >>
        ELSE LET n == Min(Min(blen, remaining), Len(rin) - rpos)
             IN /\ rpos' = rpos + n
                /\ remaining' = remaining - n
                /\ rgot' = rgot \o SubSeq(rin, rpos + 1, rpos + n)
                /\ rerr' = IF n = 0 /\ blen > 0 THEN "EOF" ELSE NoError
                /\ UNCHANGED rpc
    /\ UNCHANGED << wpc, wout, wlog, rin, pad, rok, rhdr, rat, rbuf, rplain, skip >>
    /\ UNCHANGED notAr

NextAr ==
    \/ NewArWriter
    \/ WriteEntry
    \/ NewArReader
    \/ ArNext
    \/ ArRead

SpecAr == Init /\ [][NextAr]_vars

\* ------------------------------------------------------------ properties
\* Every process is between two operations.
Idle == \A p \in Procs : pc[p] = "idle"

\* Process p is inside regenerateRepoMetadata.
Regenerating(p) == pc[p] \in { "download", "upload" }

\* The regeneration that returned last returned nil, and none is running.
Regenerated == lastRegen \in { "ok", "partial" } /\ \A p \in Procs : ~Regenerating(p)

\* The stored Release is the one rendered from the stored Packages and
\* Packages.gz: its sizes and digests are theirs.
ReleaseMatches ==
    /\ MetadataKeys \subseteq DOMAIN store
    /\ \E now \in Dates :
        store[ReleaseKey] =
            GenerateReleaseFile(
                << ComputeFileHash(store[PackagesKey], "main/binary-amd64/Packages"),
                   ComputeFileHash(store[PackagesGzKey], "main/binary-amd64/Packages.gz") >>,
                now)

\* C1: after a regeneration that completed successfully, with no other
\* regeneration in progress, the size, MD5, SHA1 and SHA256 the stored Release
\* lists for Packages and Packages.gz are those of the stored objects.
ReleaseDescribesPackages == Regenerated => ReleaseMatches

\* C1, its case: a regeneration has completed, none is running, and the
\* Release describes the Packages that list a package.
ReleaseDescribesPackagesCase ==
    Regenerated /\ ReleaseMatches /\ store[PackagesKey] # <<>>

\* The stored InRelease and Release.gpg sign the stored Release, with the key
\* published at key.gpg.
SignaturesMatch ==
    /\ MetadataKeys \subseteq DOMAIN store
    /\ store[InReleaseKey] = ClearSign(store[ReleaseKey])
    /\ store[ReleaseGpgKey] = DetachedSign(store[ReleaseKey])
    /\ store[KeyGpgKey] = PublicKey

\* C2: after every completed regeneration InRelease is the clearsigned form
\* of exactly the stored Release bytes and Release.gpg a detached signature
\* over the same bytes, both by the signer whose public key is at key.gpg.
SignaturesCoverRelease == Regenerated => SignaturesMatch

\* C2, its case: a regeneration has completed and the signatures are those
\* of the stored Release.
SignaturesCoverReleaseCase ==
    Regenerated /\ SignaturesMatch /\ store[PackagesKey] # <<>>

\* The lines of the published Packages.
PackagesLines == Split(store[PackagesKey], "\n")

\* The stanza whose Filename line is line i of Packages names a stored object
\* with the Size and the SHA256 the stanza gives.
StanzaMatchesPool(i) ==
    LET key == TrimPrefix(PackagesLines[i], <<"Filename", ": ">>) IN
    /\ Has(key)
    /\ PackagesLines[i + 1] = <<"Size", ": ">> \o Itoa(ByteLen(store[key]))
    /\ PackagesLines[i + 4] = <<"SHA256", ": ">> \o Hash("sha256", store[key])

\* No admin delete has run, every poll cycle so far ended well, and the
\* regeneration that returned last read every fragment.
IngestsDone ==
    /\ Idle
    /\ dels = 0
    /\ lastRegen = "ok"
    /\ \A s \in Sources : last[s] \in { "none", "ok", "skip" }

\* C3: after any sequence of ingests (and admin deletes) every stanza of the
\* published Packages names a pool object that exists and has the stanza's
\* Size and SHA256, also when two sources produce the same Package and
\* Version.
StanzasMatchPool ==
    IngestsDone =>
        \A i \in 1..Len(PackagesLines) :
            HasPrefix(PackagesLines[i], <<"Filename", ": ">>) => StanzaMatchesPool(i)

\* C4: at most one regeneration is in progress at any time, over the ingests
\* of all sources and the admin deletes on the same bucket.
OneRegenerationAtATime == Cardinality({ p \in Procs : Regenerating(p) }) <= 1

\* The decision poll would take on the state its last Check returned, when
\* the download of the persisted state succeeds: skip the cycle.
WouldSkip(s) ==
    NoNewVersion(Has(StateKey(s)),
                 IF Has(StateKey(s)) THEN store[StateKey(s)] ELSE <<>>, chk[s])

\* The last poll cycle of source s has failed.
Failed(s) == pc[s] = "idle" /\ last[s] = "err"

\* C5, what the code keeps of it: a poll cycle that fails (in Check, Fetch, the
\* validation, a store upload, the listing or the signing) has not written
\* meta/<name>/state, and the next cycle with the same upstream state fetches
\* again, unless the failed cycle had fetched only because its download of a
\* persisted state equal to the upstream state failed.
FailedCycleKeepsState ==
    \A s \in Sources :
        Failed(s) =>
            /\ ~wroteState[s]
            /\ (fetched[s] /\ (got[s] \/ ~same[s])) => ~WouldSkip(s)

\* C5 as the specification states it: a failed poll cycle has not written
\* meta/<name>/state, so the next cycle with the same upstream state fetches
\* again.
FailedCycleFetchesAgain ==
    \A s \in Sources :
        Failed(s) => (~wroteState[s] /\ (fetched[s] => ~WouldSkip(s)))

\* C5, its case: a cycle failed after it had stored the fragment of a new
\* version, and no state is persisted.
FailedCycleCase ==
    \E s \in Sources :
        /\ Failed(s) /\ fetched[s] /\ chk[s] # <<>>
        /\ Has(EntryKey(s)) /\ ~Has(StateKey(s))

\* C6, what the code keeps of it: when Check returns the state that is persisted and
\* the download of the persisted state succeeds, Fetch is not called and the
\* cycle ends at once, with no upload, delete or regeneration.
SameStateSkips ==
    \A s \in Sources :
        (same[s] /\ got[s]) =>
            (~fetched[s] /\ ~wroteState[s] /\ pc[s] = "idle" /\ last[s] = "skip")

\* C6 as the specification states it: when Check returns the state that is
\* persisted, Fetch is not called.
SameStateNeverFetches == \A s \in Sources : same[s] => ~fetched[s]

\* C6, its case: a cycle found the persisted state unchanged and was skipped.
SameStateCase ==
    \E s \in Sources : same[s] /\ got[s] /\ last[s] = "skip" /\ Has(EntryKey(s))

\* The fragment of the package source s ingested last.
Fragment(s) == PackagesEntry(deb[s])

\* Both sources have ingested, successfully, and no admin delete has run.
BothIngested == dels = 0 /\ Idle /\ \A s \in Sources : last[s] = "ok"

\* Packages is the two fragments in ascending order, and both pool objects
\* and both fragments are stored.
BothPublished ==
    /\ \E a \in Sources, b \in Sources :
        /\ a # b
        /\ ~Less(Fragment(b), Fragment(a))
        /\ store[PackagesKey] = Fragment(a) \o Fragment(b)
    /\ \A s \in Sources :
        /\ Has(PkgInfo(deb[s]).Filename)
        /\ Has(EntryKey(s)) /\ store[EntryKey(s)] = Fragment(s)

RECURSIVE Ascending(_)
Ascending(f) ==
    IF DOMAIN f = {} THEN <<>>
    ELSE LET k == CHOOSE i \in DOMAIN f : \A j \in DOMAIN f : ~Less(f[j], f[i])
         IN f[k] \o Ascending([j \in DOMAIN f \ {k} |-> f[j]])

IngestedAgain(s) ==
    dels = 0 /\ Idle /\ last[s] = "ok" /\ prev[s] # <<>> /\ prev[s] # deb[s]

\* What Packages may hold for the sources other than s: nothing, or the
\* stanza of a package one of them may ingest.
OtherStanzas(s) ==
    {<<>>} \cup { PackagesEntry(d) :
                    d \in { x \in UNION { Upstream(t) : t \in Sources \ {s} } : Accepts(x) } }

\* The fragment of s describes the new package only, Packages holds that one
\* stanza for s, and the pool object of the earlier package is still there.
NewVersionPublished(s) ==
    /\ Has(EntryKey(s)) /\ store[EntryKey(s)] = Fragment(s)
    /\ \E o \in OtherStanzas(s) :
        store[PackagesKey] \in { Fragment(s) \o o, o \o Fragment(s) }
    /\ Has(PkgInfo(prev[s]).Filename)

DeleteReturned == pc[Cli] = "idle" /\ last[Cli] = "ok" /\ alone

\* The fragment and the state of the deleted source are absent, the pool
\* objects its fragment named are deleted, and Packages holds no stanza of it.
SourceRemoved ==
    /\ ~Has(EntryKey(tgt))
    /\ ~Has(StateKey(tgt))
    /\ \A i \in 1..Len(named) : ~Has(named[i])
    /\ Has(PackagesKey)
    /\ store[PackagesKey] \in
        {<<>>} \cup { store[EntryKey(t)] : t \in { u \in Sources \ {tgt} : Has(EntryKey(u)) } }

\* C10, what the code keeps of it: after DeleteSource(name) returns without error,
\* when none of its store calls failed and no poll cycle took a step during
\* the call, the fragment and the state of the source are absent, every pool
\* object the fragment named is deleted, and Packages holds no stanza of it.
CleanDeleteRemovesSource == (DeleteReturned /\ intact) => SourceRemoved

\* C10 as the specification states it: after DeleteSource(name) returns
\* without error the fragment and the state are absent, every pool object
\* the fragment named is deleted, and Packages holds no stanza of the source.
DeleteRemovesSource == DeleteReturned => SourceRemoved

\* C10 where no call has failed: after DeleteSource(name) returns without
\* error, with every poll cycle over and the source's fragment absent, the
\* published Packages contains no stanza from that source.
DeletedSourceUnpublished ==
    (pc[Cli] = "idle" /\ last[Cli] = "ok" /\ faults = 0 /\ Idle /\ ~Has(EntryKey(tgt))) =>
        /\ Has(PackagesKey)
        /\ store[PackagesKey] \in
            {<<>>} \cup { store[EntryKey(t)] :
                            t \in { u \in Sources \ {tgt} : Has(EntryKey(u)) } }

\* C10, its case: DeleteSource removed a source that had a published package
\* and a persisted state.
CleanDeleteCase ==
    DeleteReturned /\ intact /\ named # <<>> /\ \E s \in Sources : wroteState[s]

\* The verdicts with which processNewDeb rejects the bytes it is given.
Rejections == { "oversize", "unparsable", "unsafe" }

\* C11: when ingest rejects its input as oversize (more than 512 MiB),
\* unparsable, or with a Package or Version that is no safe field, it performs
\* no object-store write: the cycle is over with the rejection, and the step
\* that rejected left the pool, the fragments, the six metadata keys and the
\* state as they were.
RejectedIngestWritesNothing ==
    /\ [](\A s \in Sources : verdict[s] \in Rejections => (pc[s] = "idle" /\ last[s] = "err"))
    /\ [][\A s \in Sources :
            (verdict'[s] \in Rejections /\ polls' # polls) => store' = store]_vars

\* C11, its case: an input was rejected when the repository already held a
\* published package.
RejectedIngestCase ==
    \E s \in Sources : verdict[s] \in Rejections /\ Has(PackagesKey) /\ Has(EntryKey(s))

\* The last cycle of s got a state from Check.
Checked(s) == verdict[s] \notin { "none", "check-error" }

\* C12: when Check returns the empty string the cycle goes on to Fetch,
\* whatever is persisted, and the ingest never writes meta/<name>/state.
EmptyStateAlwaysFetches ==
    \A s \in Sources : (Checked(s) /\ chk[s] = <<>>) => (fetched[s] /\ ~wroteState[s])

\* C12, its case: a cycle whose Check returned the empty string ingested a
\* package while a state persisted by an earlier cycle was stored.
EmptyStateCase ==
    \E s \in Sources :
        /\ Checked(s) /\ chk[s] = <<>> /\ pc[s] = "idle" /\ last[s] = "ok"
        /\ Has(StateKey(s))

CyclesNeverOverlap ==
    \A s \in Sources :
        /\ inflight[s] <= 1
        /\ inflight[s] = (IF InCycle(s) THEN 1 ELSE 0)
        /\ wk[s] # "start" => cycles[s] = taken[s] + 1
        /\ wk[s] = "start" => (cycles[s] = 0 /\ taken[s] = 0 /\ tickC[s] = 0)

\* C14, its case: a tick is waiting while the second cycle of a source runs.
CyclesNeverOverlapCase ==
    \E s \in Sources : InCycle(s) /\ cycles[s] = 2 /\ tickC[s] = 1

\* Run has returned, nil or an error.
RunOver == run \in { "returned", "failed" }

\* C15: Run returns only after every polling worker it started has finished.
RunWaitsForWorkers == RunOver => \A s \in Sources : wk[s] = "returned"

\* C16: once the root context is cancelled every polling worker returns in
\* the end, also one that waits for the mutex or is inside a cycle, and Run
\* returns in the end.
CancelEndsRun ==
    ctxDone ~> ((\A s \in Sources : wk[s] = "returned") /\ RunOver)

\* C16, its case: Run has returned nil after a cancellation that came while a
\* worker waited for the mutex another one held.
CancelEndsRunCase ==
    whenDone = "blocked" /\ run = "returned" /\ \A s \in Sources : wk[s] = "returned"


\* Every response but the last one was a 429.
OnlyRetriedAfter429 == \A i \in 1..(Len(resps) - 1) : resps[i] = 429

\* All three attempts were answered with a 429.
ThreeTimes429 == Len(resps) = 3 /\ \A i \in 1..3 : resps[i] = 429

SecondsOf(ra) ==
    CASE ra = <<"7">> -> 7
      [] ra = <<"+", "5">> -> 5
      [] ra = <<"3", "6", "0", "0">> -> 3600
      [] ra = <<"3", "6", "0", "1">> -> 3601
      [] OTHER -> 0

\* C18: the wait after a 429 on attempt k (0, 1, 2) is 30, 60, 120 seconds,
\* unless Retry-After is an integer greater than zero, when it is that many
\* seconds and at most 3600; a Retry-After that is zero, negative or no
\* integer leaves the exponential wait.
BackoffFollowsRetryAfter ==
    \A k \in 1..Len(waits) :
        waits[k] = IF SecondsOf(heads[k]) > 0
                   THEN (IF SecondsOf(heads[k]) > 3600 THEN 3600 ELSE SecondsOf(heads[k]))
                   ELSE (CASE k = 1 -> 30 [] k = 2 -> 60 [] k = 3 -> 120)

\* C18, its case: one call has waited an exponential backoff, a capped
\* Retry-After and a Retry-After that is no integer.
BackoffCase ==
    /\ Len(waits) = 3
    /\ heads[1] = <<"W", "e", "d">> /\ waits[1] = 30
    /\ heads[2] = <<"3", "6", "0", "1">> /\ waits[2] = 3600
    /\ heads[3] = <<"-", "5">> /\ waits[3] = 120

\* C19: when the context is cancelled while the call waits out a backoff or
\* has a request in flight, the call returns the cancellation error, and
\* issues no further request; a cancelled call never leaves its backoff
\* through the timer.
CancelAbortsCall ==
    /\ [](( hctx /\ pcAtCancel \in { "backoff", "inflight" } /\ hpc = "done")
            => (result = "cancelled" /\ requests = reqAtCancel))
    /\ [][(hctx /\ hpc = "backoff") => (hpc' \in { "backoff", "done" } /\ attempt' = attempt)]_vars

\* C19, its case: the context was cancelled during the backoff after the
\* first 429, and the call has returned.
CancelAbortsCallCase ==
    /\ hctx /\ pcAtCancel = "backoff" /\ hpc = "done"
    /\ Len(waits) = 1 /\ requests = 1


\* The request is a GET under /dists/ or /pool/ whose path has "..".
DotDotRequest ==
    /\ sreq.method = "GET"
    /\ HasPrefix(sreq.path, <<"/", "dists", "/">>) \/ HasPrefix(sreq.path, <<"/", "pool", "/">>)
    /\ ContainsDotDot(URLPath(sreq.path))

\* C20: every GET under /dists/ or /pool/ whose path contains ".." is
\* answered 400, and no call of the object store is made for it.
DotDotAnswered400 ==
    (spc = "done" /\ DotDotRequest) => (sstatus = 400 /\ sget = <<>>)

\* What the server keeps of it: a request whose path has ".." is answered 400
\* by handleProxy or 301 by the mux, and never reaches the object store.
DotDotNeverReachesStore ==
    DotDotRequest => (sget = <<>> /\ sstatus \in { 0, 301, 400 })

\* The pool key of each package an upstream of the model serves and ingest
\* accepts, written out.
WrittenPoolKey(debData) ==
    CASE debData = MkDeb(<<"d">>, <<"1">>, <<"x">>) -> <<"pool/", "d", "/", "d", "/", "d", "-", "1", ".deb">>
      [] debData = MkDeb(<<"d">>, <<"1">>, <<"y">>) -> <<"pool/", "d", "/", "d", "/", "d", "-", "1", ".deb">>
      [] debData = MkDeb(<<"d">>, <<"2">>, <<"x">>) -> <<"pool/", "d", "/", "d", "/", "d", "-", "2", ".deb">>
      [] debData = MkDeb(<<"Z", "c">>, <<"1">>, <<"x">>)
            -> <<"pool/", "Z", "/", "Z", "c", "/", "Z", "c", "-", "1", ".deb">>
      [] OTHER -> <<>>

\* The lines of a fragment that start with "Filename".
FilenameOf(fragment) ==
    LET lines == Split(fragment, "\n")
    IN { lines[i] : i \in { j \in 1..Len(lines) : lines[j] # <<>> /\ Head(lines[j]) = "Filename" } }

KeyAsParsed(key) ==
    /\ key # <<>>
    /\ \A i \in 1..Len(key) : key[i] \notin { ":", ": ", "\n" }
    /\ Head(key) \notin { " ", "\t" }
    /\ key[Len(key)] \notin { " ", "\t" }

\* A value as the parser leaves one: no white space around it, and every
\* line after the first starts with a space or a tab.
ValueAsParsed(value) ==
    /\ value # <<>> => (Head(value) \notin { " ", "\t", "\n" }
                          /\ value[Len(value)] \notin { " ", "\t", "\n" })
    /\ \A i \in 1..(Len(value) - 1) : value[i] = "\n" => value[i + 1] \in { " ", "\t" }

\* A control record as the parser leaves one: keys and values as above, and
\* the last Package field has a value.
AsParsed(ctrl) ==
    /\ \A i \in 1..Len(ctrl.Fields) :
        KeyAsParsed(ctrl.Fields[i][1]) /\ ValueAsParsed(ctrl.Fields[i][2])
    /\ \E i \in 1..Len(ctrl.Fields) :
        /\ ctrl.Fields[i][1] = <<"Package">>
        /\ ctrl.Fields[i][2] # <<>>
        /\ \A j \in (i + 1)..Len(ctrl.Fields) : ctrl.Fields[j][1] # <<"Package">>

EntryEnd(at, size) == at + 60 + size + (IF size % 2 = 1 THEN 1 ELSE 0)

\* C23: in every archive written through writeEntry, each entry header starts
\* at an even offset: the first after the 8 bytes of the global header, every
\* other one after the data of the entry before it and exactly one pad byte
\* when that data is of odd length, none when it is of even length.
HeadersOnEvenOffsets ==
    /\ \A i \in 1..Len(wlog) :
        /\ wlog[i].at % 2 = 0
        /\ wlog[i].at = IF i = 1 THEN 8 ELSE EntryEnd(wlog[i - 1].at, wlog[i - 1].size)
        /\ Len(wout) >= EntryEnd(wlog[i].at, wlog[i].size)
        /\ wout[wlog[i].at + 59] = Grave
        /\ wout[wlog[i].at + 60] = "\n"
        /\ wlog[i].size % 2 = 1 => wout[wlog[i].at + 60 + wlog[i].size + 1] = "\n"
    /\ wlog # <<>> => Len(wout) = EntryEnd(wlog[Len(wlog)].at, wlog[Len(wlog)].size)

\* C23, its case: an entry of three bytes was written and another one after
\* it, which starts after one pad byte.
HeadersOnEvenOffsetsCase ==
    /\ Len(wlog) = 2
    /\ wlog[1].size = 3
    /\ wlog[2].at = 72

\* A header field that holds a number in the digits given, with white space
\* around it and a sign before it at most.
NumberField(field, digits) ==
    LET str == TrimSpace(field)
        ds == IF str # <<>> /\ Head(str) \in { "+", "-" } THEN Tail(str) ELSE str
    IN ds # <<>> /\ \A i \in 1..Len(ds) : ds[i] \in digits

\* C24: the ar reader fails when the global header is wrong, fails when bytes
\* 58-59 of an entry header are not the trailer pair, and fails with a parse
\* error when the size field or the mode field of a header is no number; in
\* none of these cases does it return a header.
MalformedNeverYieldsHeader ==
    /\ (rpc # "none" /\ Len(rin) >= 8 /\ SubSeq(rin, 1, 8) # ArMagic)
          => (rpc = "ended" /\ rerr = "not an ar archive" /\ ~rok)
    /\ (rbuf # <<>> /\ (rbuf[59] # Grave \/ rbuf[60] # "\n"))
          => (rpc = "ended" /\ rerr = "invalid ar entry header magic" /\ ~rok)
    /\ (rbuf # <<>> /\ rbuf[59] = Grave /\ rbuf[60] = "\n"
          /\ ~NumberField(SubSeq(rbuf, 49, 58),
                          { "0", "1", "2", "3", "4", "5", "6", "7", "8", "9" }))
          => (rpc = "ended" /\ rerr = "parsing ar entry size" /\ ~rok)
    /\ (rbuf # <<>> /\ rbuf[59] = Grave /\ rbuf[60] = "\n"
          /\ ~NumberField(SubSeq(rbuf, 41, 48), { "0", "1", "2", "3", "4", "5", "6", "7" }))
          => (rpc = "ended" /\ ~rok)

\* C30: after next has returned an entry of size n, whatever the caller has
\* read of it, Read has returned bytes of the entry only, in their order, and
\* the reader stands n bytes after the header less what is left to read; the
\* following call of next skips what is left and the pad byte of an entry of
\* odd size, so that it reads the next header where the format has it; in an
\* archive as the writer wrote it, that is where the writer put a header.
ReaderKeepsToEntries ==
    /\ []((rpc = "open" /\ rok /\ rhdr.Size >= 0) =>
            /\ remaining >= 0
            /\ rpos + remaining = rat + 60 + rhdr.Size
            /\ Len(rgot) + remaining = rhdr.Size
            /\ \A i \in 1..Len(rgot) : rgot[i] = rin[rat + 60 + i])
    /\ []((rplain /\ rok) => \E i \in 1..Len(wlog) :
            wlog[i].at = rat /\ wlog[i].size = rhdr.Size)
    /\ [][(rok /\ rhdr.Size >= 0 /\ rat' # rat) =>
            /\ rat' = EntryEnd(rat, rhdr.Size)
            /\ skip' = rhdr.Size - Len(rgot) + (IF rhdr.Size % 2 = 1 THEN 1 ELSE 0)]_vars

\* C30, its case: of an entry of three bytes one was read, and next has
\* skipped the other two and the pad byte and returned the second entry.
ReaderKeepsToEntriesCase ==
    /\ rpc = "open" /\ rok /\ rplain
    /\ Len(wlog) = 2 /\ wlog[1].size = 3
    /\ rat = 72
    /\ skip = 3

\* No process is inside regenerateRepoMetadata.
NoRegeneration == \A p \in Procs : ~Regenerating(p)

\* C25: the six published metadata keys are inconsistent (the Release not
\* describing the stored Packages and Packages.gz, or InRelease and
\* Release.gpg not signing the stored Release) only while a regeneration is in
\* progress: whenever none is running and metadata is published, the keys are
\* consistent, also after a regeneration that an upload error ended.
MetadataConsistentWhenQuiet ==
    (NoRegeneration /\ MetadataKeys \cap DOMAIN store # {}) => (ReleaseMatches /\ SignaturesMatch)

\* C26: in DeleteSource a failed download of the fragment and a failed delete
\* of a pool or meta object are not fatal: the next deletion is attempted
\* all the same, the regeneration runs, and DeleteSource returns from its
\* regeneration only, with an error exactly when the regeneration failed.
DeleteFailuresNotFatal ==
    /\ [][(pc[Cli] = "idle" /\ pc'[Cli] # "idle") => pc'[Cli] = "delete-pool"]_vars
    /\ [][(pc[Cli] = "delete-pool" /\ pc'[Cli] # "delete-pool") =>
            (rm = <<>> /\ pc'[Cli] = "delete-state")]_vars
    /\ [][(pc[Cli] = "delete-pool" /\ rm # <<>> /\ intact' # intact) => rm' = Tail(rm)]_vars
    /\ [][(pc[Cli] = "delete-state" /\ pc'[Cli] # "delete-state") => pc'[Cli] = "lock"]_vars
    /\ [][(pc[Cli] # "idle" /\ pc'[Cli] = "idle") =>
            /\ pc[Cli] \in { "lock", "download", "upload" }
            /\ last'[Cli] = "err" <=> lastRegen' = "err"
            /\ last'[Cli] = "ok" <=> lastRegen' \in { "ok", "partial" }]_vars

\* C26, its case: the download or a delete of DeleteSource has failed, the
\* regeneration has run, and DeleteSource has returned nil.
DeleteFailuresNotFatalCase ==
    /\ pc[Cli] = "idle" /\ dels = 1
    /\ ~intact
    /\ last[Cli] = "ok"
    /\ lastRegen = "ok"

\* The control block BuildDeb wrote has a line that starts a Package field.
HasPackageLine ==
    LET lines == Split(FieldLines(cctrl.Fields), "\n")
    IN \E i \in 1..Len(lines) :
        Len(lines[i]) >= 2 /\ lines[i][1] = "Package" /\ lines[i][2] \in { ":", ": " }

\* C27: ParseDebControl returns a control record only when its Package is not
\* empty, and an error for a control block without a Package field; so the
\* pool key and the fragment processNewDeb builds carry a package name that
\* is not empty.
PackageNeverEmpty ==
    /\ (cpc \in { "parsed", "processed", "deleted" } /\ ~cparsed.err) => cparsed.Package # <<>>
    /\ (cpc \in { "parsed", "processed", "deleted" } /\ ~HasPackageLine) => cparsed.err
    /\ (cpc = "processed" /\ cparsed.err) => (ckey = <<>> /\ cfrag = <<>>)
    /\ (cpc = "processed" /\ ckey # <<>>) =>
          /\ Len(ckey) >= 9
          /\ ckey[1] = "pool/" /\ ckey[2] # "/" /\ ckey[3] = "/" /\ ckey[4] # "/"
          /\ \E i \in 1..(Len(cfrag) - 2) :
                /\ i = 1 \/ cfrag[i - 1] = "\n"
                /\ cfrag[i] = "Package" /\ cfrag[i + 1] = ": "
                /\ cfrag[i + 2] \notin { "\n", "", " " }

\* C27, its case: a control block with a Version but no Package was parsed,
\* with an error, and processNewDeb built neither key nor fragment.
PackageNeverEmptyCase ==
    /\ cpc = "processed"
    /\ cctrl.Fields = << << <<"Version">>, <<"d">> >> >>
    /\ cparsed.err
    /\ ckey = <<>>

\* The position of an ingest inside the critical section of processNewDeb.
InCriticalSection(s) == pc[s] \in { "download", "upload", "state" }

\* The object under the key is written by the step (created or changed).
Written(key) ==
    /\ key \in DOMAIN store'
    /\ key \notin DOMAIN store \/ store'[key] # store[key]

\* One step of the ingest of source s, as far as its store writes go.
IngestStepInOrder(s) ==
    /\ (pc'[s] = "entry" /\ pc[s] # "entry") =>
          /\ pc[s] = "pool"
          /\ store' = Put(store, PkgInfo(deb[s]).Filename, deb[s])
    /\ (pc'[s] = "lock" /\ pc[s] # "lock") =>
          /\ pc[s] = "entry"
          /\ store' = Put(store, EntryKey(s), PackagesEntry(deb[s]))
    /\ (Regenerating(s)' /\ ~Regenerating(s)) =>
          /\ pc[s] = "lock"
          /\ mu[Inst(s)] = "free" /\ mu'[Inst(s)] = s
          /\ store' = store
    /\ (pc'[s] = "upload" /\ pc[s] # "upload") => DOMAIN up'[s] = MetadataKeys
    /\ (pc[s] = "upload" /\ up'[s] # up[s]) =>
          \/ pc'[s] = "idle" /\ last'[s] = "err" /\ store' = store
          \/ \E key \in DOMAIN up[s] :
                /\ store' = Put(store, key, up[s][key])
                /\ \/ pc'[s] = "upload" /\ DOMAIN up'[s] = DOMAIN up[s] \ {key}
                   \/ pc'[s] # "upload" /\ DOMAIN up[s] = {key}
    /\ (pc'[s] = "state" /\ pc[s] # "state") =>
          /\ pc[s] = "upload"
          /\ mu[Inst(s)] = s /\ mu'[Inst(s)] = s
          /\ lastRegen' \in { "ok", "partial" }
          /\ \E key \in MetadataKeys :
                DOMAIN up[s] = {key} /\ store' = Put(store, key, up[s][key])
    /\ Written(StateKey(s)) =>
          /\ pc[s] = "state" /\ pc'[s] = "idle"
          /\ mu[Inst(s)] = s
          /\ store' = Put(store, StateKey(s), chk[s])

\* C28: within one ingest the store writes come in the order pool object,
\* fragment, the six metadata keys, state; the state is written with the
\* mutex held and only after the regeneration of the same critical section
\* returned nil, so no other source regenerates or writes its state between
\* a source's regeneration and its state write.
IngestWritesInOrder ==
    /\ [](\A s \in Sources :
            /\ InCriticalSection(s) => mu[Inst(s)] = s
            /\ pc[s] = "upload" => (DOMAIN up[s] # {} /\ DOMAIN up[s] \subseteq MetadataKeys)
            /\ \A t \in Sources \ {s} : ~(InCriticalSection(s) /\ InCriticalSection(t)))
    /\ [][\A s \in Sources : IngestStepInOrder(s)]_vars

\* C28, its case: a source finished its regeneration and is about to write
\* its state while the other source, fragment uploaded, waits for the mutex.
IngestWritesInOrderCase ==
    \E s \in Sources : \E t \in Sources \ {s} :
        /\ pc[s] = "state"
        /\ mu[Inst(s)] = s
        /\ lastRegen \in { "ok", "partial" }
        /\ pc[t] = "lock"
        /\ Has(PkgInfo(deb[s]).Filename) /\ Has(EntryKey(s))
        /\ \A key \in MetadataKeys : Has(key)

\* One step of the regeneration run by process p, as far as a fragment whose
\* download failed goes: the loop goes on without it, the Packages is built
\* from the fragments collected, and that Packages is what gets published.
FailedDownloadStep(p) ==
    /\ (pc[p] = "download" /\ keys'[p] # keys[p] /\ Cardinality(keys[p]) > 1) =>
          /\ pc'[p] = "download"
          /\ \E key \in keys[p] :
                /\ keys'[p] = keys[p] \ {key}
                /\ entries'[p] \in { entries[p], Append(entries[p], store[key]) }
                /\ faults' > faults =>
                      (Has(key) /\ entries'[p] = entries[p] /\ skipped'[p])
    /\ (pc[p] = "download" /\ pc'[p] = "upload" /\ faults' > faults) =>
          \E key \in keys[p] :
                /\ keys[p] = {key}
                /\ Has(key)
                /\ skipped'[p]
                /\ pkgs'[p] = PackagesData(entries[p])
                /\ up'[p][PackagesKey] = pkgs'[p]
    /\ (pc[p] = "upload" /\ pc'[p] = "upload"
            /\ PackagesKey \in DOMAIN up[p] /\ PackagesKey \notin DOMAIN up'[p]) =>
          store'[PackagesKey] = pkgs[p]
    /\ (pc[p] = "upload" /\ pc'[p] # "upload" /\ last'[p] # "err" /\ skipped[p]) =>
          lastRegen' = "partial"

\* C29: a failed download of one fragment does not end the regeneration: it
\* completes and publishes the metadata built from the remaining fragments,
\* the source of the unread fragment being left out of the Packages while
\* its fragment and pool object are still stored.
FailedDownloadNotFatal == [][\A p \in Procs : FailedDownloadStep(p)]_vars

\* C29, its case: the last regeneration skipped a fragment and returned nil;
\* the published Packages holds the other source's fragment only, while the
\* skipped source's fragment and pool object are stored.
FailedDownloadNotFatalCase ==
    \E s \in Sources : \E t \in Sources \ {s} :
        /\ Idle
        /\ lastRegen = "partial"
        /\ Has(EntryKey(s)) /\ store[EntryKey(s)] # <<>>
        /\ Has(EntryKey(t)) /\ store[EntryKey(t)] # <<>>
        /\ store[EntryKey(t)] # store[EntryKey(s)]
        /\ LET files == FilenameLines(Split(store[EntryKey(s)], "\n"))
           IN files # <<>> /\ \A i \in 1..Len(files) : Has(files[i])
        /\ Has(PackagesKey)
        /\ store[PackagesKey] = PackagesData(<< store[EntryKey(t)] >>)

\* The lines of the control block BuildDeb wrote, up to its first blank line.
BlockLines ==
    LET lines == Split(FieldLines(cctrl.Fields), "\n")
        blanks == { i \in 1..Len(lines) : lines[i] = <<>> }
        stop == IF blanks = {} THEN Len(lines) + 1
                ELSE CHOOSE i \in blanks : \A j \in blanks : i <= j
    IN SubSeq(lines, 1, stop - 1)

\* The key a header line gives.
HeaderKey(line) == TrimSpace(SubSeq(line, 1, FirstColon(line) - 1))

\* The positions of the "Key: Value" header lines of the block: neither a
\* continuation nor a line without a colon or without a key.
HeaderLines ==
    { i \in 1..Len(BlockLines) :
        /\ Head(BlockLines[i]) \notin { " ", "\t" }
        /\ HasColon(BlockLines[i])
        /\ HeaderKey(BlockLines[i]) # <<>> }

\* C31: parseControlFile yields exactly one field per "Key: Value" header
\* line of the control block, in file order, none repeated or dropped, also
\* for a block with a line that is no continuation and has no colon.
OneFieldPerHeaderLine ==
    (cpc \in { "parsed", "processed", "deleted" } /\ ~cparsed.err) =>
        /\ Len(cparsed.Fields) = Cardinality(HeaderLines)
        /\ \A i \in HeaderLines :
              LET n == Cardinality({ j \in HeaderLines : j <= i })
              IN n <= Len(cparsed.Fields)
                    /\ cparsed.Fields[n][1] = HeaderKey(BlockLines[i])

\* The same for the blocks where every line that is no continuation has a
\* colon.
OneFieldPerHeaderLineWithColons ==
    (cpc \in { "parsed", "processed", "deleted" } /\ ~cparsed.err
        /\ \A i \in 1..Len(BlockLines) :
              Head(BlockLines[i]) \in { " ", "\t" } \/ HasColon(BlockLines[i]))
        => OneFieldPerHeaderLine

\* C32: the mutex is released on every exit path of processNewDeb and
\* DeleteSource: it is held only by a process inside its critical section,
\* a process that returns leaves it free whatever the outcome, and no
\* process waits in p.mu.Lock() forever.
LockAlwaysReleased ==
    /\ [](\A i \in Instances :
            mu[i] # "free" => (Inst(mu[i]) = i /\ pc[mu[i]] \in { "download", "upload", "state" }))
    /\ [][\A p \in Procs :
            (mu[Inst(p)] = p /\ pc'[p] = "idle") => mu'[Inst(p)] = "free"]_vars
    /\ \A p \in Procs : (pc[p] = "lock") ~> (pc[p] # "lock")

\* C32, its case: the regeneration of one source returned an error, and the
\* other source holds the mutex for its own regeneration.
LockAlwaysReleasedCase ==
    \E s \in Sources : \E t \in Sources \ {s} :
        /\ dels = 0
        /\ lastRegen = "err"
        /\ last[t] = "err"
        /\ Regenerating(s)
        /\ mu[Inst(s)] = s

\* The path of the request GET /<key> for a pool key.
RequestPath(key) == <<"/", "pool", "/">> \o Tail(key)

\* The read path serves the key: the mux hands GET /<key> to handleProxy as
\* it is, and handleProxy does not answer 400 for it.
Served(key) ==
    /\ cleanPath(RequestPath(key)) = RequestPath(key)
    /\ Pattern(RequestPath(key)) = "handleProxy"
    /\ ~ContainsDotDot(TrimPrefix(URLPath(RequestPath(key)), <<"/">>))

\* C33: every package that processNewDeb accepts gets a pool key that the
\* read path serves: GET /<key> is not answered 400 by the ".." check of
\* handleProxy.
AcceptedKeyIsServed ==
    (cpc = "processed" /\ ckey # <<>>) => Served(ckey)

\* The same for the packages whose Package and Version have no two dots in
\* a row.
AcceptedKeyWithoutDotsIsServed ==
    (cpc = "processed" /\ ckey # <<>>
        /\ ~ContainsDotDot(cparsed.Package) /\ ~ContainsDotDot(cparsed.Version))
        => Served(ckey)

\* C34: DeleteSource deletes no pool file other than the one processNewDeb
\* uploaded for the source, whatever control fields the accepted package
\* has: the files of the Filename lines of its fragment are that pool key.
DeletesOnlyOwnPoolKey ==
    (cpc = "deleted" /\ ckey # <<>>) =>
        \A i \in 1..Len(cdel) : cdel[i] = ckey

\* The same for the packages without a control field named Filename.
DeletesOnlyOwnPoolKeyWithoutFilenameField ==
    (cpc = "deleted" /\ ckey # <<>>
        /\ \A i \in 1..Len(cparsed.Fields) : cparsed.Fields[i][1] # <<"Filename">>)
        => (cdel = << ckey >>)

\* C35: for every entry header with a valid trailer the remaining-bytes
\* counter of the reader is never negative and Read never slices out of
\* range: a header whose size field is a negative number gives an error.
RemainingNeverNegative ==
    /\ remaining >= 0
    /\ rpc # "panicked"
    /\ (rok /\ rpc = "open") => rhdr.Size >= 0

\* The same for the headers whose size field is not negative.
RemainingNeverNegativeForSizes ==
    (rbuf = <<>> \/ Atoi(TrimSpace(SubSeq(rbuf, 49, 58))).err
        \/ Atoi(TrimSpace(SubSeq(rbuf, 49, 58))).n >= 0)
        => RemainingNeverNegative

\* C36: an upstream body of more than 512 MiB is never uploaded to the pool
\* or advertised: the read limit of the adapters and the size guard of
\* processNewDeb reject it, and no file cut at 512 MiB is published.
OversizeBodyRejected ==
    (cpc \in { "processed", "deleted" } /\ ByteLen(cdeb) > maxDebSize) =>
        (ckey = <<>> /\ cfrag = <<>>)

\* sub occurs in s (strings.Contains).
IsInfix(sub, s) ==
    \E i \in 0..(Len(s) - Len(sub)) : SubSeq(s, i + 1, i + Len(sub)) = sub

\* The source has a fragment, every pool object the fragment names exists,
\* and the published Packages includes the fragment's stanza.
Advertised(s) ==
    /\ Has(EntryKey(s))
    /\ LET names == FilenameLines(Split(store[EntryKey(s)], "\n"))
       IN names # <<>> /\ \A i \in 1..Len(names) : Has(names[i])
    /\ Has(PackagesKey)
    /\ IsInfix(store[EntryKey(s)], store[PackagesKey])

\* C37: in every reachable state, a source whose meta/<name>/state exists has
\* its meta/<name>/packages-entry, the pool object the fragment names, and
\* its stanza in the published Packages; no source is left with a persisted
\* state but no advertised package.
PersistedStateIsAdvertised ==
    \A s \in Sources : Has(StateKey(s)) => Advertised(s)

\* The same of the states in which every poll cycle and DeleteSource call
\* has returned and no store or signer call has failed.
PersistedStateIsAdvertisedAtRest ==
    (Idle /\ faults = 0) => PersistedStateIsAdvertised

\* C38: HTTPWithRetry waits only between attempts: after the third 429 it
\* does not enter another backoff wait, and a call that returns its
\* rate-limited error has waited out at most two backoffs.
WaitsOnlyBetweenAttempts ==
    /\ hpc = "backoff" => Len(resps) < MaxAttempts
    /\ (hpc = "done" /\ result = "rate-limited") => Len(waits) <= MaxAttempts - 1

\* A step of the poll cycle of source s, ingest included.
IngestStep(s) ==
    \/ Poll(s)
    \/ UploadPool(s)
    \/ UploadEntry(s)
    \/ RegenList(s)
    \/ RegenDownload(s)
    \/ RegenUpload(s)
    \/ UploadState(s)

\* What a step of the ingest of source s does to the bucket: it deletes
\* nothing, and it writes the pool key of the parsed package, the fragment
\* and the state of s, or one of the six metadata keys.
WritesOnlyOwnKeys(s) ==
    /\ DOMAIN store \subseteq DOMAIN store'
    /\ \A key \in DOMAIN store' :
          Written(key) =>
              \/ key \in { EntryKey(s), StateKey(s) } \cup MetadataKeys
              \/ pc[s] = "pool" /\ key = PkgInfo(deb[s]).Filename
    /\ \A m \in Sources \ {s} : \A key \in { StateKey(m), EntryKey(m) } :
          /\ Has(key) <=> key \in DOMAIN store'
          /\ Has(key) => store'[key] = store[key]

\* C39: an ingest for source n writes only the pool key of the parsed
\* package, meta/n/packages-entry, meta/n/state and the six repository
\* metadata keys; it leaves the state and the fragment of every other source
\* unchanged and deletes no object.
IngestWritesOnlyOwnKeys ==
    [][\A s \in Sources : IngestStep(s) => WritesOnlyOwnKeys(s)]_vars

\* C39, its case: a source has uploaded its pool object, its fragment and
\* the six metadata keys and is about to upload its state, and the other
\* source has its state and its fragment in the bucket.
IngestWritesOnlyOwnKeysCase ==
    \E s \in Sources : \E m \in Sources \ {s} :
        /\ pc[s] = "state"
        /\ pc[m] = "idle" /\ last[m] = "ok"
        /\ Has(StateKey(m)) /\ Has(EntryKey(m))
        /\ Has(PkgInfo(deb[s]).Filename) /\ Has(EntryKey(s))
        /\ MetadataKeys \subseteq DOMAIN store

====
